---- MODULE Spec2Model ----
(***************************************************************************)
(* kms-wallet: an Ethereum signing identity backed by a KMS signing        *)
(* oracle.  The module models                                              *)
(*   - KmsWallet         (src/src/KmsWallet.ts, and the second copy of the *)
(*                        class in src/src/KmsWalletProvider.ts),          *)
(*   - KmsHdWallet       (src/src/KmsHdWallet.ts),                         *)
(*   - KmsSigner         (src/src/KmsSigner.ts),                           *)
(*   - KmsWalletProvider (src/src/KmsWalletProvider.ts),                   *)
(* each under a specification of its own.                                  *)
(*                                                                         *)
(* Scaling.  TLC integers have 32 bits, so secp256k1 is replaced by a      *)
(* cyclic group of prime order N < 2^15.5 in which ECDSA is computed as in *)
(* the real curve (a point is kept as its multiple of the generator, the   *)
(* x coordinate is a 2-to-1 map that identifies P and -P, the y parity     *)
(* tells them apart).  A signature component has CompLen bytes instead of  *)
(* 32; bytes, DER tags and the parsing code are as in the source.          *)
(***************************************************************************)
EXTENDS Integers, Sequences, FiniteSets, TLC

\* ------------------------------------------------------------- bounds
\* Bytes of a signature component (32 in the source; see Scaling).
CompLen == 2
\* Operations one run of the KmsWallet specification performs.
MaxOps == 3
\* Calls one run makes on a KmsSigner or a KmsWalletProvider.
MaxSends == 3

\* ---------------------------------------------------- program constants
\* DER SEQUENCE tag, 0x30.
DerSeqTag == 48
\* DER INTEGER tag, 0x02.
DerIntTag == 2
\* Values of a byte (Uint8Array / Buffer element).
ByteBase == 256
\* Group order n (scaled; the source has the secp256k1 order).
N == 46337
\* Uncompressed point marker, 0x04.
PointPrefix == 4

halfN == N \div 2

None == <<>>
Some(x) == <<x>>
IsSet(o) == o # <<>>
Min(a, b) == IF a <= b THEN a ELSE b
Max(a, b) == IF a >= b THEN a ELSE b

\* ------------------------------------------------------------- bytes
RECURSIVE Zeros(_)
Zeros(k) == IF k <= 0 THEN <<>> ELSE <<0>> \o Zeros(k - 1)

\* Buffer.slice(from, to) with JavaScript's clamping (0-based, to exclusive).
Slice(b, from, to) ==
    LET lo == Min(Max(from, 0), Len(b))
        hi == Min(Max(to, lo), Len(b))
    IN  IF hi <= lo THEN <<>> ELSE SubSeq(b, lo + 1, hi)

\* b[offset] of a Uint8Array; -1 stands for undefined (read past the end).
At(b, offset) == IF offset >= 0 /\ offset < Len(b) THEN b[offset + 1] ELSE -1

\* BigInt('0x' + b.toString('hex')): the big-endian value of a buffer.
RECURSIVE BytesToInt(_)
BytesToInt(b) ==
    IF Len(b) = 0 THEN 0
    ELSE BytesToInt(SubSeq(b, 1, Len(b) - 1)) * ByteBase + b[Len(b)]

\* The shortest big-endian encoding of x >= 0 (at least one byte).
RECURSIVE MinBytes(_)
MinBytes(x) ==
    IF x < ByteBase THEN <<x>>
    ELSE MinBytes(x \div ByteBase) \o <<x % ByteBase>>

\* Number of hexadecimal digits of x >= 0 (BigInt.toString(16)).
RECURSIVE HexDigits(_)
HexDigits(x) == IF x < 16 THEN 1 ELSE 1 + HexDigits(x \div 16)

\* Buffer.from(x.toString(16).padStart(2 * CompLen, '0'), 'hex').
\* For x >= 0 the digits are complete bytes when they fit in 2 * CompLen
\* digits; a longer odd-length string loses its last digit.  For x < 0 the
\* string is '-' and the digits of -x, left-padded with '0': decoding stops
\* at the pair that holds the '-'.
HexPadToBuffer(x) ==
    IF x >= 0
    THEN IF HexDigits(x) <= 2 * CompLen
         THEN Zeros(CompLen - Len(MinBytes(x))) \o MinBytes(x)
         ELSE IF HexDigits(x) % 2 = 0 THEN MinBytes(x) ELSE MinBytes(x \div 16)
    ELSE Zeros(Max(0, 2 * CompLen - 1 - HexDigits(0 - x)) \div 2)

\* ------------------------------------------- the curve (library, scaled)
\* Extended Euclid: <<g, x>> with a * x = g (mod m).
RECURSIVE Egcd(_, _, _, _)
Egcd(a, b, x0, x1) == IF b = 0 THEN x0 ELSE Egcd(b, a % b, x1, x0 - (a \div b) * x1)

Mod(a) == ((a % N) + N) % N
MulMod(a, b) == (Mod(a) * Mod(b)) % N
\* a^-1 mod N, for a not divisible by N.
Inv(a) ==
    LET c == ((Egcd(Mod(a), N, 1, 0) % N) + N) % N IN c

\* Points are kept as their multiple of the generator, 1 .. N-1; 0 is the
\* point at infinity.  P and -P share the x coordinate and differ in the
\* parity of y.
XCoord(p) == MulMod(Min(p, N - p), 3)
YParity(p) == p % 2
YCoord(p) == p
\* The point with x coordinate x and y parity par, or 0 when x is no
\* x coordinate of the curve.
LiftX(x, par) ==
    LET m == MulMod(x, Inv(3))
    IN  IF x < 1 \/ x >= N \/ m < 1 \/ m > halfN THEN 0
        ELSE IF m % 2 = par THEN m ELSE N - m

\* ECDSA over the digest z with private key d and nonce k.
EcdsaSign(d, z, k) ==
    LET r == XCoord(k)
        s == MulMod(Inv(k), Mod(z + MulMod(r, d)))
    IN  [r |-> r, s |-> s]

\* Public-key recovery: Q = r^-1 (s R - z G); 0 when there is none.
EcdsaRecover(z, r, s, par) ==
    LET R == LiftX(r, par)
    IN  IF R = 0 \/ r < 1 \/ r >= N \/ s < 1 \/ s >= N THEN 0
        ELSE MulMod(Inv(r), Mod(MulMod(s, R) - z))

ToBytes(x) == Zeros(CompLen - Len(MinBytes(x))) \o MinBytes(x)
\* X and Y of a point, CompLen bytes each (the 64 bytes behind 0x04).
PointBytes(p) == ToBytes(XCoord(p)) \o ToBytes(YCoord(p))

\* keccak256 as an injective function of its input.
Keccak(b) == [keccak |-> b]
\* An address: the low 20 bytes of a hash, in checksum case or lower case.
ChecksumAddress(hash) == [hex |-> hash, checksum |-> TRUE]
ToLowerCase(a) == [a EXCEPT !.checksum = FALSE]
\* ethers.computeAddress of a point.
ComputeAddress(p) == ChecksumAddress(Keccak(PointBytes(p)))

\* ------------------------------------------------ the oracle's encodings
\* A DER INTEGER body: shortest big-endian bytes, 0x00 in front when the
\* top bit is set.
DerInt(x) == IF MinBytes(x)[1] >= 128 THEN <<0>> \o MinBytes(x) ELSE MinBytes(x)
\* The DER SEQUENCE of r and s.
DerSig(r, s) ==
    LET rb == DerInt(r)
        sb == DerInt(s)
    IN  <<DerSeqTag, Len(rb) + Len(sb) + 4>>
            \o <<DerIntTag, Len(rb)>> \o rb \o <<DerIntTag, Len(sb)>> \o sb

\* DER SubjectPublicKeyInfo of the key d: a header, then 0x04 | X | Y.
SpkiHeader == <<48, 86, 48, 16, 3, 66, 0>>
PublicKeyDer(d) == SpkiHeader \o <<PointPrefix>> \o PointBytes(d)

\* -------------------------------------------------- KmsWallet: parsing
ParseError(msg) == [ok |-> FALSE, err |-> msg, r |-> <<>>, s |-> <<>>]
ParseOk(r, s) == [ok |-> TRUE, err |-> "", r |-> r, s |-> s]

\* while (x.length > 32 && x[0] === 0x00) x = x.slice(1)
RECURSIVE StripLeadingZeros(_)
StripLeadingZeros(b) ==
    IF Len(b) > CompLen /\ b[1] = 0 THEN StripLeadingZeros(Tail(b)) ELSE b

\* Mutant of PadLeft: the zero bytes are put behind the value.
PadRight(b) == IF Len(b) < CompLen THEN b \o Zeros(CompLen - Len(b)) ELSE b

\* if (x.length < 32) x = Buffer.concat([Buffer.alloc(32 - x.length, 0), x])
PadLeft(b) == IF Len(b) < CompLen THEN Zeros(CompLen - Len(b)) \o b ELSE b

\* Mutant of LowS: the flip is left out.
LowSKeep(s) == s

\* The low-s step of parseDERSignature (KmsWallet.ts): s > n/2 becomes n - s.
LowS(s) ==
    LET sBigInt == BytesToInt(s)
    IN  IF sBigInt > halfN THEN HexPadToBuffer(N - sBigInt) ELSE s

\* The tag and length walk both copies of parseDERSignature share: the raw
\* r and s bodies, or the error of the first failing check.  A length read
\* past the end is undefined: the slice is then empty and the next tag read
\* fails; a slice that runs past the end is cut at the end.
DerWalk(signature) ==
    LET rLength == At(signature, 3)
        rRaw    == Slice(signature, 4, 4 + rLength)
        sTagAt  == 4 + rLength
        sLength == At(signature, sTagAt + 1)
        sRaw    == IF sLength < 0 THEN <<>>
                   ELSE Slice(signature, sTagAt + 2, sTagAt + 2 + sLength)
    IN  IF At(signature, 0) # DerSeqTag THEN ParseError("Invalid DER signature")
        ELSE IF At(signature, 2) # DerIntTag
             THEN ParseError("Invalid DER signature: R marker")
        ELSE IF rLength < 0 \/ At(signature, sTagAt) # DerIntTag
             THEN ParseError("Invalid DER signature: S marker")
        ELSE ParseOk(rRaw, sRaw)

\* parseDERSignature of src/src/KmsWallet.ts.
parseDERSignature(signature) ==
    LET w == DerWalk(signature)
    IN  IF ~w.ok THEN w
        ELSE ParseOk(PadLeft(StripLeadingZeros(w.r)),
                     LowS(PadLeft(StripLeadingZeros(w.s))))

\* The copy of the class in src/src/KmsWalletProvider.ts.
normalizeSignatureComponent(component) == PadLeft(StripLeadingZeros(component))

normalizeAndLowS(s) ==
    LET normalized == normalizeSignatureComponent(s)
        sBigInt    == BytesToInt(normalized)
    IN  IF sBigInt > halfN THEN HexPadToBuffer(N - sBigInt) ELSE normalized

parseDERSignatureSplit(signature) ==
    LET w == DerWalk(signature)
    IN  IF ~w.ok THEN w
        ELSE ParseOk(normalizeSignatureComponent(w.r), normalizeAndLowS(w.s))

\* Which copy of the class an identity runs.
Impls == {"KmsWallet.ts", "KmsWalletProvider.ts"}
Parse(impl, signature) ==
    IF impl = "KmsWallet.ts" THEN parseDERSignature(signature)
    ELSE parseDERSignatureSplit(signature)

\* ------------------------------------------ KmsWallet: recovery-id search
\* ethers.Signature.from({r, s, v}): r and s are 32 bytes, s has its top bit
\* clear, v is 27 or 28; it throws otherwise.
SignatureFromOk(r, s, v) ==
    /\ Len(r) = CompLen
    /\ Len(s) = CompLen
    /\ s[1] < 128
    /\ v \in {27, 28}

\* ethers.recoverAddress(digest, signature): <<address>>, or <<>> when it
\* throws (no such point, r or s out of range).
recoverAddress(digest, r, s, v) ==
    LET q == EcdsaRecover(digest, BytesToInt(r), BytesToInt(s), v - 27)
    IN  IF q = 0 THEN None ELSE Some(ComputeAddress(q))

\* One turn of the loop of findRecoveryParam: TRUE when v is returned.  An
\* exception of Signature.from or recoverAddress is caught and counts as a
\* miss.
RecoveryMatches(digest, r, s, v, expectedAddress) ==
    /\ SignatureFromOk(r, s, v)
    /\ IsSet(recoverAddress(digest, r, s, v))
    /\ ToLowerCase(recoverAddress(digest, r, s, v)[1]) = ToLowerCase(expectedAddress)

RecoveryError == "Failed to find valid recovery parameter"

\* The try block of one turn throws: in Signature.from or in
\* recoverAddress.
CandidateThrows(digest, r, s, v) ==
    ~SignatureFromOk(r, s, v) \/ ~IsSet(recoverAddress(digest, r, s, v))
CandidateError == "invalid signature candidate"

\* Mutant of findRecoveryParam: an exception of the first turn is not
\* caught and leaves the function.
findRecoveryParamAbort(digest, r, s, expectedAddress) ==
    IF CandidateThrows(digest, r, s, 27)
    THEN [ok |-> FALSE, err |-> CandidateError, v |-> 0]
    ELSE IF RecoveryMatches(digest, r, s, 27, expectedAddress)
    THEN [ok |-> TRUE, err |-> "", v |-> 27]
    ELSE IF RecoveryMatches(digest, r, s, 28, expectedAddress)
    THEN [ok |-> TRUE, err |-> "", v |-> 28]
    ELSE [ok |-> FALSE, err |-> RecoveryError, v |-> 0]

\* Mutant of findRecoveryParam: the first candidate is returned unchecked.
findRecoveryParamFirst(digest, r, s, expectedAddress) ==
    [ok |-> TRUE, err |-> "", v |-> 27]

\* Mutant of findRecoveryParam: the last candidate is returned when none
\* matches, instead of the error.
findRecoveryParamFallback(digest, r, s, expectedAddress) ==
    IF RecoveryMatches(digest, r, s, 27, expectedAddress)
    THEN [ok |-> TRUE, err |-> "", v |-> 27]
    ELSE [ok |-> TRUE, err |-> "", v |-> 28]

\* findRecoveryParam: v = 27, then v = 28, else the error.
findRecoveryParam(digest, r, s, expectedAddress) ==
    IF RecoveryMatches(digest, r, s, 27, expectedAddress)
    THEN [ok |-> TRUE, err |-> "", v |-> 27]
    ELSE IF RecoveryMatches(digest, r, s, 28, expectedAddress)
    THEN [ok |-> TRUE, err |-> "", v |-> 28]
    ELSE [ok |-> FALSE, err |-> RecoveryError, v |-> 0]

\* --------------------------------------------------------- the oracle
\* Private keys the oracle may hold or sign with, and the nonces k it may
\* draw (ECDSA leaves k free; RFC 6979 fixes it per key and digest).
Keys == {5, 12345}
Nonces == {2, 9, 14000}
OracleErrors == {"OracleUnavailable", "OracleDenied"}

\* ethers.hashMessage of the messages of the model, as digests mod N.
Messages == {1, 2}
hashMessage(m) == IF m = 1 THEN 77 ELSE 40001

NoSig == [r |-> <<>>, s |-> <<>>, v |-> 0]

\* The nonces a transaction of the model can carry: the chain starts at 0
\* or 2, a request may name 5, and each call moves a nonce cache by at most
\* one.
ChainStarts == {0, 2}
ExplicitNonces == {5}
MaxTxNonce == 5 + MaxSends

\* ethers' Transaction.unsignedHash of the transactions of the model, which
\* differ in their nonce only, as digests mod N.
unsignedHash(tx) == 20000 + 7 * tx.nonce

\* The digests the model signs.
Digests ==
    {hashMessage(m) : m \in Messages}
        \cup {unsignedHash([nonce |-> n]) : n \in 0 .. MaxTxNonce}
\* The oracle's DER answers, computed once.
OracleSignature ==
    [d \in Keys, z \in Digests, k \in Nonces |->
        DerSig(EcdsaSign(d, z, k).r, EcdsaSign(d, z, k).s)]

\* What kmsClient.send(SignCommand) can do for a digest: throw, answer
\* without a Signature, or answer the DER signature of some key and nonce.
SignResponses(digest) ==
    [kind : {"error"}, err : OracleErrors, signer : {0}, nonce : {0}, bytes : {<<>>}]
    \cup [kind : {"empty"}, err : {""}, signer : {0}, nonce : {0}, bytes : {<<>>}]
    \cup { [kind |-> "signature", err |-> "", signer |-> d, nonce |-> k,
            bytes |-> OracleSignature[d, digest, k]]
           : d \in Keys, k \in Nonces }

\* What kmsClient.send(GetPublicKeyCommand) can do for the key d.
PubResponses(d) ==
    [kind : {"error"}, err : OracleErrors, bytes : {<<>>}]
    \cup [kind : {"empty"}, err : {""}, bytes : {<<>>}]
    \cup { [kind |-> "key", err |-> "", bytes |-> PublicKeyDer(d)] }
\* The answers that matter to a wallet: none is asked for once the public
\* key or the address is cached.
NoPubResp == [kind |-> "none", err |-> "", bytes |-> <<>>]
PubChoices(d, cpk, caddr) ==
    IF IsSet(cpk) \/ IsSet(caddr) THEN {NoPubResp} ELSE PubResponses(d)

\* ------------------------------------------------- KmsWallet: the object
VARIABLES
    impl,             \* the copy of the class the identity runs
    kmsKey,           \* the private key the oracle holds for keyId
    cachedPublicKey,  \* KmsWallet.cachedPublicKey, None or Some(bytes)
    cachedAddress,    \* KmsWallet.cachedAddress, None or Some(address)
    signCalls,        \* SignCommand calls the wallet has sent
    pubKeyCalls,      \* GetPublicKeyCommand calls the wallet has sent
    opCount,          \* operations started
    last              \* the last operation: its inputs, oracle answer, result

walletVars == <<impl, kmsKey, cachedPublicKey, cachedAddress, signCalls,
                pubKeyCalls, opCount, last>>

\* publicKeyDer.slice(-65): the last 1 + 2 * 32 bytes.
PubKeyLen == 1 + 2 * CompLen

\* Mutant of getPublicKey: an error of the oracle is reported as a missing
\* public key.
getPublicKeyRewrap(cpk, pubResp) ==
    IF IsSet(cpk)
    THEN [ok |-> TRUE, err |-> "", value |-> cpk[1], cachedPublicKey |-> cpk, calls |-> 0]
    ELSE IF pubResp.kind \in {"error", "empty"}
    THEN [ok |-> FALSE, err |-> "Failed to get public key from KMS", value |-> <<>>,
          cachedPublicKey |-> cpk, calls |-> 1]
    ELSE LET key == Slice(pubResp.bytes, Len(pubResp.bytes) - PubKeyLen,
                          Len(pubResp.bytes))
         IN  [ok |-> TRUE, err |-> "", value |-> key, cachedPublicKey |-> Some(key),
              calls |-> 1]

\* KmsWallet.getPublicKey on a wallet whose cache is cpk.
getPublicKey(cpk, pubResp) ==
    IF IsSet(cpk)
    THEN [ok |-> TRUE, err |-> "", value |-> cpk[1], cachedPublicKey |-> cpk, calls |-> 0]
    ELSE IF pubResp.kind = "error"
    THEN [ok |-> FALSE, err |-> pubResp.err, value |-> <<>>, cachedPublicKey |-> cpk,
          calls |-> 1]
    ELSE IF pubResp.kind = "empty"
    THEN [ok |-> FALSE, err |-> "Failed to get public key from KMS", value |-> <<>>,
          cachedPublicKey |-> cpk, calls |-> 1]
    ELSE LET key == Slice(pubResp.bytes, Len(pubResp.bytes) - PubKeyLen,
                          Len(pubResp.bytes))
         IN  [ok |-> TRUE, err |-> "", value |-> key, cachedPublicKey |-> Some(key),
              calls |-> 1]

\* KmsWallet.getAddress on a wallet whose caches are cpk and caddr.
getAddress(cpk, caddr, pubResp) ==
    IF IsSet(caddr)
    THEN [ok |-> TRUE, err |-> "", value |-> caddr, cachedPublicKey |-> cpk,
          cachedAddress |-> caddr, calls |-> 0]
    ELSE LET pk == getPublicKey(cpk, pubResp)
             address == ChecksumAddress(Keccak(Slice(pk.value, 1, Len(pk.value))))
         IN  IF ~pk.ok
             THEN [ok |-> FALSE, err |-> pk.err, value |-> None,
                   cachedPublicKey |-> pk.cachedPublicKey, cachedAddress |-> caddr,
                   calls |-> pk.calls]
             ELSE [ok |-> TRUE, err |-> "", value |-> Some(address),
                   cachedPublicKey |-> pk.cachedPublicKey,
                   cachedAddress |-> Some(address), calls |-> pk.calls]

SignFailure(err, cpk, caddr, pubCalls) ==
    [ok |-> FALSE, err |-> err, sig |-> NoSig, cachedPublicKey |-> cpk,
     cachedAddress |-> caddr, signCalls |-> 1, pubCalls |-> pubCalls]

\* Mutant of signDigest: the recovery id is searched on the s the oracle
\* sent (normalized to 32 bytes), before the low-s flip.
signDigestSearchRaw(im, digest, signResp, pubResp, cpk, caddr) ==
    LET parsed  == Parse(im, signResp.bytes)
        sRaw    == normalizeSignatureComponent(DerWalk(signResp.bytes).s)
        address == getAddress(cpk, caddr, pubResp)
        found   == findRecoveryParam(digest, parsed.r, sRaw, address.value[1])
    IN  IF signResp.kind # "signature" \/ ~parsed.ok \/ ~address.ok \/ ~found.ok
        THEN SignFailure("mutant", cpk, caddr, 0)
        ELSE [ok |-> TRUE, err |-> "",
              sig |-> [r |-> parsed.r, s |-> parsed.s, v |-> found.v],
              cachedPublicKey |-> address.cachedPublicKey,
              cachedAddress |-> address.cachedAddress,
              signCalls |-> 1, pubCalls |-> address.calls]

\* Mutant of signDigest: the address is looked up while the Sign call is
\* under way, whatever its answer.
signDigestLookupAlways(im, digest, signResp, pubResp, cpk, caddr) ==
    LET parsed  == Parse(im, signResp.bytes)
        address == getAddress(cpk, caddr, pubResp)
        found   == findRecoveryParam(digest, parsed.r, parsed.s, address.value[1])
    IN  IF signResp.kind = "error"
        THEN SignFailure(signResp.err, address.cachedPublicKey,
                         address.cachedAddress, address.calls)
        ELSE IF signResp.kind = "empty"
             THEN SignFailure("Failed to sign with KMS", address.cachedPublicKey,
                              address.cachedAddress, address.calls)
        ELSE IF ~parsed.ok
             THEN SignFailure(parsed.err, address.cachedPublicKey,
                              address.cachedAddress, address.calls)
        ELSE IF ~address.ok
             THEN SignFailure(address.err, address.cachedPublicKey,
                              address.cachedAddress, address.calls)
        ELSE IF ~found.ok
             THEN SignFailure(found.err, address.cachedPublicKey,
                              address.cachedAddress, address.calls)
        ELSE [ok |-> TRUE, err |-> "",
              sig |-> [r |-> parsed.r, s |-> parsed.s, v |-> found.v],
              cachedPublicKey |-> address.cachedPublicKey,
              cachedAddress |-> address.cachedAddress,
              signCalls |-> 1, pubCalls |-> address.calls]

\* Mutant of signDigest: the address is looked up before the answer is
\* parsed.
signDigestAddressFirst(im, digest, signResp, pubResp, cpk, caddr) ==
    LET parsed  == Parse(im, signResp.bytes)
        address == getAddress(cpk, caddr, pubResp)
        found   == findRecoveryParam(digest, parsed.r, parsed.s, address.value[1])
    IN  IF signResp.kind = "error" THEN SignFailure(signResp.err, cpk, caddr, 0)
        ELSE IF signResp.kind = "empty"
             THEN SignFailure("Failed to sign with KMS", cpk, caddr, 0)
        ELSE IF ~address.ok
             THEN SignFailure(address.err, address.cachedPublicKey,
                              address.cachedAddress, address.calls)
        ELSE IF ~parsed.ok
             THEN SignFailure(parsed.err, address.cachedPublicKey,
                              address.cachedAddress, address.calls)
        ELSE IF ~found.ok
             THEN SignFailure(found.err, address.cachedPublicKey,
                              address.cachedAddress, address.calls)
        ELSE [ok |-> TRUE, err |-> "",
              sig |-> [r |-> parsed.r, s |-> parsed.s, v |-> found.v],
              cachedPublicKey |-> address.cachedPublicKey,
              cachedAddress |-> address.cachedAddress,
              signCalls |-> 1, pubCalls |-> address.calls]

\* KmsWallet.signDigest: the Sign call, parse, getAddress, the recovery-id
\* search on the parsed (low-s) r and s, Signature.from.
signDigest(im, digest, signResp, pubResp, cpk, caddr) ==
    LET parsed  == Parse(im, signResp.bytes)
        address == getAddress(cpk, caddr, pubResp)
        found   == findRecoveryParam(digest, parsed.r, parsed.s, address.value[1])
    IN  IF signResp.kind = "error" THEN SignFailure(signResp.err, cpk, caddr, 0)
        ELSE IF signResp.kind = "empty"
             THEN SignFailure("Failed to sign with KMS", cpk, caddr, 0)
        ELSE IF ~parsed.ok THEN SignFailure(parsed.err, cpk, caddr, 0)
        ELSE IF ~address.ok
             THEN SignFailure(address.err, address.cachedPublicKey,
                              address.cachedAddress, address.calls)
        ELSE IF ~found.ok
             THEN SignFailure(found.err, address.cachedPublicKey,
                              address.cachedAddress, address.calls)
        ELSE [ok |-> TRUE, err |-> "",
              sig |-> [r |-> parsed.r, s |-> parsed.s, v |-> found.v],
              cachedPublicKey |-> address.cachedPublicKey,
              cachedAddress |-> address.cachedAddress,
              signCalls |-> 1, pubCalls |-> address.calls]

\* The nonces of the transactions handed to KmsWallet.signTransaction.
TxNonces == 0 .. 1

NoResp == [kind |-> "none", err |-> "", signer |-> 0, nonce |-> 0, bytes |-> <<>>]
\* The last operation: its digest, the Sign answer, the GetPublicKey answer
\* when one was asked for, the oracle calls it made, and its result.
NoOp == [op |-> "none", digest |-> 0, resp |-> NoResp, pubResp |-> NoPubResp,
         calls |-> [sign |-> 0, pub |-> 0], ok |-> TRUE, err |-> "",
         sig |-> NoSig, addr |-> None, pub |-> <<>>]
\* The GetPublicKey answer an operation that made calls such calls got.
Asked(calls, pubResp) == IF calls = 0 THEN NoPubResp ELSE pubResp

WalletInit ==
    /\ impl \in Impls
    /\ kmsKey \in Keys
    /\ cachedPublicKey = None
    /\ cachedAddress = None
    /\ signCalls = 0
    /\ pubKeyCalls = 0
    /\ opCount = 0
    /\ last = NoOp

\* await kmsWallet.getPublicKey()
WalletGetPublicKey ==
    /\ opCount < MaxOps
    /\ \E pubResp \in PubChoices(kmsKey, cachedPublicKey, cachedAddress) :
          \E res \in {getPublicKey(cachedPublicKey, pubResp)} :
              /\ cachedPublicKey' = res.cachedPublicKey
              /\ pubKeyCalls' = pubKeyCalls + res.calls
              /\ last' = [NoOp EXCEPT !.op = "getPublicKey", !.ok = res.ok,
                                      !.err = res.err, !.pub = res.value,
                                      !.pubResp = Asked(res.calls, pubResp),
                                      !.calls = [sign |-> 0, pub |-> res.calls]]
    /\ opCount' = opCount + 1
    /\ UNCHANGED <<impl, kmsKey, cachedAddress, signCalls>>

\* await kmsWallet.getAddress()
WalletGetAddress ==
    /\ opCount < MaxOps
    /\ \E pubResp \in PubChoices(kmsKey, cachedPublicKey, cachedAddress) :
          \E res \in {getAddress(cachedPublicKey, cachedAddress, pubResp)} :
              /\ cachedPublicKey' = res.cachedPublicKey
              /\ cachedAddress' = res.cachedAddress
              /\ pubKeyCalls' = pubKeyCalls + res.calls
              /\ last' = [NoOp EXCEPT !.op = "getAddress", !.ok = res.ok,
                                      !.err = res.err, !.addr = res.value,
                                      !.pubResp = Asked(res.calls, pubResp),
                                      !.calls = [sign |-> 0, pub |-> res.calls]]
    /\ opCount' = opCount + 1
    /\ UNCHANGED <<impl, kmsKey, signCalls>>

\* signDigest on a digest, the oracle answering the Sign call with one of
\* responses.
WalletSignWith(op, digest, responses) ==
    /\ opCount < MaxOps
    /\ \E signResp \in responses,
          pubResp \in PubChoices(kmsKey, cachedPublicKey, cachedAddress) :
          \E res \in {signDigest(impl, digest, signResp, pubResp,
                                cachedPublicKey, cachedAddress)} :
              /\ cachedPublicKey' = res.cachedPublicKey
              /\ cachedAddress' = res.cachedAddress
              /\ signCalls' = signCalls + res.signCalls
              /\ pubKeyCalls' = pubKeyCalls + res.pubCalls
              /\ last' = [NoOp EXCEPT !.op = op, !.digest = digest, !.resp = signResp,
                                      !.ok = res.ok, !.err = res.err, !.sig = res.sig,
                                      !.pubResp = Asked(res.pubCalls, pubResp),
                                      !.calls = [sign |-> res.signCalls,
                                                 pub |-> res.pubCalls]]
    /\ opCount' = opCount + 1
    /\ UNCHANGED <<impl, kmsKey>>

\* The part personalSign and signTransaction share: signDigest on a digest,
\* answered by the oracle.
WalletSignDigest(op, digest) == WalletSignWith(op, digest, SignResponses(digest))

\* ------------------------------------- KmsWallet: any buffer as answer
\* parseDERSignature takes whatever bytes the Sign call answered.  The
\* buffers below are built as a DER signature is, from sample bytes, with
\* right and wrong tags, declared lengths that match the body or run past
\* it, bodies that are short, exact, zero-padded or too long, and cut off
\* at every length.
ByteSamples == {0, 1, 200}
WrongSeqTag == 49
WrongIntTag == 3
MaxBody == CompLen + 2
\* The bodies keep their value below 2^25 (see Scaling): only the last
\* three bytes are free, the byte before them is 0 or 1, the others 0.
Bodies ==
    {b \in UNION {[1 .. k -> ByteSamples] : k \in 0 .. MaxBody} :
        /\ \A i \in 1 .. Len(b) - 4 : b[i] = 0
        /\ Len(b) >= 4 => b[Len(b) - 3] <= 1}
FewBodies == {<<>>, <<5>>, <<0, 200, 7>>}
Frame(tag0, tagR, rDeclared, rBody, tagS, sDeclared, sBody) ==
    <<tag0, Len(rBody) + Len(sBody) + 4>>
        \o <<tagR, rDeclared>> \o rBody \o <<tagS, sDeclared>> \o sBody
WellFramed(rBody, sBody) ==
    Frame(DerSeqTag, DerIntTag, Len(rBody), rBody, DerIntTag, Len(sBody), sBody)
Prefixes(b) == {SubSeq(b, 1, k) : k \in 0 .. Len(b)}
Buffers ==
    {WellFramed(rb, sb) : rb \in Bodies, sb \in FewBodies}
    \cup {WellFramed(rb, sb) : rb \in FewBodies, sb \in Bodies}
    \cup {Frame(t0, tR, Len(rb) + dr, rb, tS, Len(sb) + ds, sb) :
            t0 \in {DerSeqTag, WrongSeqTag}, tR \in {DerIntTag, WrongIntTag},
            tS \in {DerIntTag, WrongIntTag}, dr \in {0, 1, 9}, ds \in {0, 1},
            rb \in FewBodies, sb \in FewBodies}
    \cup UNION {Prefixes(WellFramed(rb, sb)) : rb \in FewBodies, sb \in FewBodies}
BufferResponses ==
    {[kind |-> "signature", err |-> "", signer |-> 0, nonce |-> 0, bytes |-> b] :
        b \in Buffers}

\* The first sign operation of a wallet, the Sign call answered with any of
\* the buffers.
WalletSignBuffer ==
    /\ opCount = 0
    /\ WalletSignWith("personalSign", hashMessage(1), BufferResponses)

\* await kmsWallet.personalSign(message), which signs hashMessage(message),
\* and await kmsWallet.signTransaction(tx), which signs tx.unsignedHash.
SignRequests ==
    {<<"personalSign", hashMessage(m)>> : m \in Messages}
        \cup {<<"signTransaction", unsignedHash([nonce |-> n])>> : n \in TxNonces}
WalletSign == \E request \in SignRequests : WalletSignDigest(request[1], request[2])


\* ======================================================== KmsHdWallet
\* The seed is the oracle's DER signature, which KmsHdWallet never decodes;
\* it only takes its length and hashes it.  A seed is therefore kept as its
\* length in bytes, in the source's scale
\* (6 bytes of tags and lengths, r and s of 1 to 33 bytes each).

\* ------------------------------------------------------------- bounds
\* Largest account index.
MaxIndex == 1
\* Largest count of getAddresses.
MaxCount == 2
\* Calls one run of the KmsHdWallet specification starts.
MaxHdOps == 2

\* ---------------------------------------------------- program constants
\* seed.length > 32
EntropyMax == 32
\* seed.length < 16
EntropyMin == 16
\* keccak256 yields 32 bytes.
HashLen == 32

\* Two identities over the same oracle key, and two callers that may each
\* have a call in flight.
HdWallets == {1, 2}
HdCallers == {1, 2}
HdIndices == 0 .. MaxIndex
\* Lengths of a DER signature: a typical one (70 to 72), and short ones for
\* small r and s, down to 8.  The model has one signature of each length.
SeedLens == {8, 17, 20, 71}
Seeds == [len : SeedLens]
NoSeed == [len |-> 0]

\* The entropy getMasterNode takes from the seed: its keccak256 hash when
\* the seed is longer than 32 or shorter than 16 bytes, else the seed.
entropyFromSeed(seed) ==
    IF seed.len > EntropyMax THEN [len |-> HashLen, bytes |-> Keccak(seed)]
    ELSE IF seed.len < EntropyMin THEN [len |-> HashLen, bytes |-> Keccak(seed)]
    ELSE [len |-> seed.len, bytes |-> seed]

\* ethers.Mnemonic.fromEntropy accepts 16, 20, 24, 28 or 32 bytes and
\* throws on any other length.
MnemonicLens == {16, 20, 24, 28, 32}
MnemonicOk(entropy) == entropy.len \in MnemonicLens
EntropyError == "invalid mnemonic length"

\* The path of the node ethers.HDNodeWallet.fromPhrase(phrase) returns when
\* it is given no path (ethers 6: defaultPath).
DefaultPath == <<"m", "44'", "60'", "0'", "0", "0">>
\* A node of the BIP32 tree: the entropy of its root and its path.
NoNode == [entropy |-> [len |-> 0, bytes |-> NoSeed], path |-> <<>>]
fromPhrase(entropy) == [entropy |-> entropy, path |-> DefaultPath]

\* Base paths an identity is constructed with: the default, and the same
\* path without the leading "m/".
DefaultBasePath == <<"m", "44'", "60'", "0'", "0">>
BasePaths == { DefaultBasePath, Tail(DefaultBasePath) }
\* `${index}`: the decimal digits of the index.
IndexName(i) == ToString(i)

\* Mutant of FullPath: the index is left out of the path.
FullPathNoIndex(basePath, index) ==
    (IF Len(basePath) > 1 /\ basePath[1] = "m" THEN Tail(basePath) ELSE basePath)
        \o <<IndexName(0)>>

\* basePath.startsWith('m/') ? basePath.slice(2) : basePath, then '/' + index
FullPath(basePath, index) ==
    (IF Len(basePath) > 1 /\ basePath[1] = "m" THEN Tail(basePath) ELSE basePath)
        \o <<IndexName(index)>>

\* node.derivePath(path): a leading "m" is accepted on a root only (it
\* throws elsewhere); every other component is one step down.
DerivePathOk(node, path) == Len(path) = 0 \/ path[1] # "m" \/ Len(node.path) = 1
derivePath(node, path) ==
    [node EXCEPT !.path = @ \o (IF Len(path) > 0 /\ path[1] = "m" THEN Tail(path) ELSE path)]

\* The projections of a child node the operations return.
DeriveOps == {"getAddress", "getPrivateKey", "getPublicKey", "signMessage",
              "signTransaction", "getWallet", "getSigner"}
Project(op, child) == [of |-> op, node |-> child]
ChildAddress(child) == Project("getAddress", child)

VARIABLES
    hdBasePath,        \* KmsHdWallet.basePath of each identity
    oracleDeterministic, \* the oracle signs with a deterministic nonce
    fixedSeed,         \* the signature a deterministic oracle gives the key
    cachedSeed,        \* KmsHdWallet.cachedSeed of each identity
    cachedMasterNode,  \* KmsHdWallet.cachedMasterNode of each identity
    hdSignCalls,       \* SignCommand calls each identity has sent
    hdCall,            \* each caller's call in flight
    hdLast,            \* the call that returned last, and its result
    hdOps,             \* calls started
    hdHistory          \* per identity: what has happened so far

hdVars == <<hdBasePath, oracleDeterministic, fixedSeed, cachedSeed,
            cachedMasterNode, hdSignCalls, hdCall, hdLast, hdOps, hdHistory>>

\* What a call has seen of the oracle: the Sign calls it has sent and the
\* answer it got.
NoAnswer == [kind |-> "none", err |-> ""]
\* The two cache fields of an identity, and their value in a new object.
Caches(w) == [seed |-> cachedSeed[w], master |-> cachedMasterNode[w]]
NoCaches == [seed |-> None, master |-> None]
\* A call keeps the seed and the master node it holds in its locals, and,
\* for the record, the cache fields it found when it started.
NoResult == [w |-> 1, ok |-> TRUE, err |-> "", op |-> "none", index |-> 0,
             count |-> 0, values |-> <<>>, asked |-> 0, answer |-> NoAnswer,
             before |-> NoCaches, seed |-> NoSeed, master |-> NoNode]
IdleCall == [pc |-> "idle", w |-> 1, op |-> "none", index |-> 0, count |-> 0,
             remaining |-> 0, seed |-> NoSeed, master |-> NoNode, acc |-> <<>>,
             asked |-> 0, answer |-> NoAnswer, before |-> NoCaches]
\* Per identity: derivation operations completed, those among the started
\* ones that called deriveChild, whether one failed, whether two were in
\* flight together, and the addresses getAddress has returned per index.
NoHistory == [done |-> 0, derivations |-> 0, failed |-> FALSE, overlapped |-> FALSE,
              returned |-> [i \in HdIndices |-> {}]]

HdInit ==
    /\ hdBasePath \in [HdWallets -> BasePaths]
    /\ hdBasePath[1] = DefaultBasePath
    /\ oracleDeterministic \in BOOLEAN
    /\ fixedSeed \in (IF oracleDeterministic THEN Seeds ELSE {NoSeed})
    /\ cachedSeed = [w \in HdWallets |-> None]
    /\ cachedMasterNode = [w \in HdWallets |-> None]
    /\ hdSignCalls = [w \in HdWallets |-> 0]
    /\ hdCall = [c \in HdCallers |-> IdleCall]
    /\ hdLast = NoResult
    /\ hdOps = 0
    /\ hdHistory = [w \in HdWallets |-> NoHistory]

InFlight(w) == {c \in HdCallers : hdCall[c].pc # "idle" /\ hdCall[c].w = w}

\* Mutant of EnterDerive: the caches are not consulted, every call sends
\* the Sign call.
EnterDeriveNoCache(c, w, call) ==
    /\ hdCall' = [hdCall EXCEPT ![c] =
            [call EXCEPT !.pc = "awaitSign", !.asked = @ + 1]]
    /\ hdSignCalls' = [hdSignCalls EXCEPT ![w] = @ + 1]

\* The synchronous start of deriveChild: getMasterNode returns the cached
\* node, or deriveSeed returns the cached seed, or the Sign call is sent.
EnterDerive(c, w, call) ==
    IF IsSet(cachedMasterNode[w])
    THEN /\ hdCall' = [hdCall EXCEPT ![c] =
                [call EXCEPT !.pc = "haveMaster", !.master = cachedMasterNode[w][1]]]
         /\ UNCHANGED hdSignCalls
    ELSE IF IsSet(cachedSeed[w])
    THEN /\ hdCall' = [hdCall EXCEPT ![c] =
                [call EXCEPT !.pc = "haveSeed", !.seed = cachedSeed[w][1]]]
         /\ UNCHANGED hdSignCalls
    ELSE /\ hdCall' = [hdCall EXCEPT ![c] =
                [call EXCEPT !.pc = "awaitSign", !.asked = @ + 1]]
         /\ hdSignCalls' = [hdSignCalls EXCEPT ![w] = @ + 1]

NoteStart(w) ==
    hdHistory' = [hdHistory EXCEPT ![w].overlapped = @ \/ InFlight(w) # {},
                                   ![w].derivations = @ + 1]

\* A caller starts getAddress, getPrivateKey, getPublicKey, signMessage,
\* signTransaction, getWallet or getSigner for an index.
HdStart(c, w, op, index) ==
    /\ hdCall[c].pc = "idle"
    /\ hdOps < MaxHdOps
    /\ hdOps' = hdOps + 1
    /\ EnterDerive(c, w, [IdleCall EXCEPT !.w = w, !.op = op, !.index = index,
                                          !.remaining = 1, !.before = Caches(w)])
    /\ NoteStart(w)
    /\ UNCHANGED <<hdLast, hdBasePath, oracleDeterministic, fixedSeed, cachedSeed,
                   cachedMasterNode>>

\* The result a call returns (its values) or throws (err).
Result(call, ok, err, values) ==
    [w |-> call.w, ok |-> ok, err |-> err, op |-> call.op, index |-> call.index,
     count |-> call.count, values |-> values, asked |-> call.asked,
     answer |-> call.answer, before |-> call.before, seed |-> call.seed,
     master |-> call.master]

NoteFinish(w, ok) ==
    hdHistory' = [hdHistory EXCEPT ![w].done = @ + 1, ![w].failed = @ \/ ~ok]

\* An operation ends with a child derived; getAddress (also the one
\* getAddresses awaits) has returned an address for the index.
NoteDerived(w, finished, op, index, value) ==
    hdHistory' = [hdHistory EXCEPT
        ![w].done = IF finished THEN @ + 1 ELSE @,
        ![w].returned = IF op \in {"getAddress", "getAddresses"}
                        THEN [@ EXCEPT ![index] = @ \cup {value}]
                        ELSE @]

\* getAddresses(count, startIndex): the loop awaits getAddress for
\* startIndex, startIndex + 1, ...; with count = 0 it returns [] at once.
HdStartGetAddresses(c, w, count, startIndex) ==
    /\ hdCall[c].pc = "idle"
    /\ hdOps < MaxHdOps
    /\ hdOps' = hdOps + 1
    /\ IF count = 0
       THEN /\ hdLast' = Result([IdleCall EXCEPT !.w = w, !.op = "getAddresses",
                                                !.index = startIndex,
                                                !.before = Caches(w)], TRUE, "", <<>>)
            /\ UNCHANGED hdCall
            /\ hdHistory' = [hdHistory EXCEPT
                   ![w].done = @ + 1,
                   ![w].overlapped = @ \/ InFlight(w) # {}]
            /\ UNCHANGED hdSignCalls
       ELSE /\ EnterDerive(c, w, [IdleCall EXCEPT !.w = w, !.op = "getAddresses",
                                     !.index = startIndex, !.count = count,
                                     !.remaining = count, !.before = Caches(w)])
            /\ NoteStart(w)
            /\ UNCHANGED hdLast
    /\ UNCHANGED <<hdBasePath, oracleDeterministic, fixedSeed, cachedSeed,
                   cachedMasterNode>>

\* Mutant of HdSignResponses: the oracle that is taken for deterministic
\* signs with a fresh nonce all the same.
HdSignResponsesRandomized ==
    [kind : {"error"}, err : OracleErrors, seed : {NoSeed}]
    \cup [kind : {"empty"}, err : {""}, seed : {NoSeed}]
    \cup [kind : {"signature"}, err : {""}, seed : Seeds]

\* What kmsClient.send(SignCommand) can do for the seed message.
HdSignResponses ==
    [kind : {"error"}, err : OracleErrors, seed : {NoSeed}]
    \cup [kind : {"empty"}, err : {""}, seed : {NoSeed}]
    \cup [kind : {"signature"}, err : {""},
          seed : IF oracleDeterministic THEN {fixedSeed} ELSE Seeds]

\* Mutant of HdSignResponse: a seed that is cached already is kept, the
\* signature of a later answer is dropped.
HdSignResponseKeepFirst(c) ==
    /\ hdCall[c].pc = "awaitSign"
    /\ \E resp \in HdSignResponses :
          LET call == [hdCall[c] EXCEPT
                           !.answer = [kind |-> resp.kind, err |-> resp.err]]
              w    == call.w
              kept == IF IsSet(cachedSeed[w]) THEN cachedSeed[w][1] ELSE resp.seed
          IN  /\ resp.kind = "signature"
              /\ cachedSeed' = [cachedSeed EXCEPT ![w] = Some(kept)]
              /\ hdCall' = [hdCall EXCEPT ![c] =
                     [call EXCEPT !.pc = "haveSeed", !.seed = resp.seed]]
              /\ UNCHANGED <<hdHistory, hdLast>>
    /\ UNCHANGED <<hdBasePath, oracleDeterministic, fixedSeed, cachedMasterNode,
                   hdSignCalls, hdOps>>

\* deriveSeed resumes after the Sign call: it throws, or caches the
\* signature as the seed and returns it.
HdSignResponse(c) ==
    /\ hdCall[c].pc = "awaitSign"
    /\ \E resp \in HdSignResponses :
          LET call == [hdCall[c] EXCEPT
                           !.answer = [kind |-> resp.kind, err |-> resp.err]]
              w    == call.w
              err  == IF resp.kind = "error" THEN resp.err
                      ELSE "Failed to generate signature from KMS"
          IN  IF resp.kind = "signature"
              THEN /\ cachedSeed' = [cachedSeed EXCEPT ![w] = Some(resp.seed)]
                   /\ hdCall' = [hdCall EXCEPT ![c] =
                          [call EXCEPT !.pc = "haveSeed", !.seed = resp.seed]]
                   /\ UNCHANGED <<hdHistory, hdLast>>
              ELSE /\ hdCall' = [hdCall EXCEPT ![c] = IdleCall]
                   /\ hdLast' = Result(call, FALSE, err, <<>>)
                   /\ NoteFinish(w, FALSE)
                   /\ UNCHANGED cachedSeed
    /\ UNCHANGED <<hdBasePath, oracleDeterministic, fixedSeed, cachedMasterNode,
                   hdSignCalls, hdOps>>

\* Mutant of HdBuildMaster: the node that is cached is the root of the
\* tree, not the node that is returned.
HdBuildMasterCacheRoot(c) ==
    /\ hdCall[c].pc = "haveSeed"
    /\ LET call    == hdCall[c]
           entropy == entropyFromSeed(call.seed)
       IN  /\ MnemonicOk(entropy)
           /\ cachedMasterNode' = [cachedMasterNode EXCEPT ![call.w] =
                    Some([fromPhrase(entropy) EXCEPT !.path = <<"m">>])]
           /\ hdCall' = [hdCall EXCEPT ![c] =
                    [call EXCEPT !.pc = "haveMaster", !.master = fromPhrase(entropy)]]
    /\ UNCHANGED <<hdBasePath, oracleDeterministic, fixedSeed, cachedSeed,
                   hdSignCalls, hdOps, hdHistory, hdLast>>

\* Mutant of HdBuildMaster: the seed is hashed whatever its length.
HdBuildMasterAlwaysHash(c) ==
    /\ hdCall[c].pc = "haveSeed"
    /\ LET call    == hdCall[c]
           entropy == [len |-> HashLen, bytes |-> Keccak(call.seed)]
       IN  /\ cachedMasterNode' =
                 [cachedMasterNode EXCEPT ![call.w] = Some(fromPhrase(entropy))]
           /\ hdCall' = [hdCall EXCEPT ![c] =
                 [call EXCEPT !.pc = "haveMaster", !.master = fromPhrase(entropy)]]
    /\ UNCHANGED <<hdBasePath, oracleDeterministic, fixedSeed, cachedSeed,
                   hdSignCalls, hdOps, hdHistory, hdLast>>

\* Mutant of HdBuildMaster: a call that finds a master node cached when it
\* resumes builds the root of the tree instead.
HdBuildMasterSecondRoot(c) ==
    /\ hdCall[c].pc = "haveSeed"
    /\ LET call    == hdCall[c]
           entropy == entropyFromSeed(call.seed)
           node    == IF IsSet(cachedMasterNode[call.w])
                      THEN [fromPhrase(entropy) EXCEPT !.path = <<"m">>]
                      ELSE fromPhrase(entropy)
       IN  /\ MnemonicOk(entropy)
           /\ cachedMasterNode' = [cachedMasterNode EXCEPT ![call.w] = Some(node)]
           /\ hdCall' = [hdCall EXCEPT ![c] =
                    [call EXCEPT !.pc = "haveMaster", !.master = node]]
    /\ UNCHANGED <<hdBasePath, oracleDeterministic, fixedSeed, cachedSeed,
                   hdSignCalls, hdOps, hdHistory, hdLast>>

\* getMasterNode resumes with the seed: entropy, mnemonic, master node,
\* which it caches; Mnemonic.fromEntropy may throw.
HdBuildMaster(c) ==
    /\ hdCall[c].pc = "haveSeed"
    /\ LET call    == hdCall[c]
           w       == call.w
           entropy == entropyFromSeed(call.seed)
       IN  IF MnemonicOk(entropy)
           THEN /\ cachedMasterNode' =
                      [cachedMasterNode EXCEPT ![w] = Some(fromPhrase(entropy))]
                /\ hdCall' = [hdCall EXCEPT ![c] =
                      [call EXCEPT !.pc = "haveMaster", !.master = fromPhrase(entropy)]]
                /\ UNCHANGED <<hdHistory, hdLast>>
           ELSE /\ hdCall' = [hdCall EXCEPT ![c] = IdleCall]
                /\ hdLast' = Result(call, FALSE, EntropyError, <<>>)
                /\ NoteFinish(w, FALSE)
                /\ UNCHANGED cachedMasterNode
    /\ UNCHANGED <<hdBasePath, oracleDeterministic, fixedSeed, cachedSeed,
                   hdSignCalls, hdOps>>

\* deriveChild(index) on a master node.
deriveChild(masterNode, basePath, index) == derivePath(masterNode, FullPath(basePath, index))

\* Mutant of HdDerive: getAddresses derives its start index every time.
HdDeriveStartIndex(c) ==
    /\ hdCall[c].pc = "haveMaster"
    /\ LET call  == hdCall[c]
           w     == call.w
           index == call.index
           child == deriveChild(call.master, hdBasePath[w], index)
           value == IF call.op = "getAddresses" THEN ChildAddress(child)
                    ELSE Project(call.op, child)
           acc   == Append(call.acc, value)
       IN  IF ~DerivePathOk(call.master, FullPath(hdBasePath[w], index))
           THEN /\ hdCall' = [hdCall EXCEPT ![c] = IdleCall]
                /\ hdLast' = Result(call, FALSE, "invalid path", <<>>)
                /\ NoteFinish(w, FALSE)
                /\ UNCHANGED hdSignCalls
           ELSE IF call.remaining > 1
           THEN /\ EnterDerive(c, w, [call EXCEPT !.remaining = @ - 1, !.acc = acc])
                /\ NoteDerived(w, FALSE, call.op, index, value)
                /\ UNCHANGED hdLast
           ELSE /\ hdCall' = [hdCall EXCEPT ![c] = IdleCall]
                /\ hdLast' = Result(call, TRUE, "", acc)
                /\ NoteDerived(w, TRUE, call.op, index, value)
                /\ UNCHANGED hdSignCalls
    /\ UNCHANGED <<hdBasePath, oracleDeterministic, fixedSeed, cachedSeed,
                   cachedMasterNode, hdOps>>

\* deriveChild resumes with the master node and the operation returns the
\* projection of the child; getAddresses goes on with the next index.
HdDerive(c) ==
    /\ hdCall[c].pc = "haveMaster"
    /\ LET call  == hdCall[c]
           w     == call.w
           index == call.index + Len(call.acc)
           child == deriveChild(call.master, hdBasePath[w], index)
           value == IF call.op = "getAddresses" THEN ChildAddress(child)
                    ELSE Project(call.op, child)
           acc   == Append(call.acc, value)
       IN  IF ~DerivePathOk(call.master, FullPath(hdBasePath[w], index))
           THEN /\ hdCall' = [hdCall EXCEPT ![c] = IdleCall]
                /\ hdLast' = Result(call, FALSE, "invalid path", <<>>)
                /\ NoteFinish(w, FALSE)
                /\ UNCHANGED hdSignCalls
           ELSE IF call.remaining > 1
           THEN /\ EnterDerive(c, w, [call EXCEPT !.remaining = @ - 1, !.acc = acc])
                /\ NoteDerived(w, FALSE, call.op, index, value)
                /\ UNCHANGED hdLast
           ELSE /\ hdCall' = [hdCall EXCEPT ![c] = IdleCall]
                /\ hdLast' = Result(call, TRUE, "", acc)
                /\ NoteDerived(w, TRUE, call.op, index, value)
                /\ UNCHANGED hdSignCalls
    /\ UNCHANGED <<hdBasePath, oracleDeterministic, fixedSeed, cachedSeed,
                   cachedMasterNode, hdOps>>

\* getKeyId() and getBasePath(): the fields, at once.
HdGetter(c, w, op) ==
    /\ hdCall[c].pc = "idle"
    /\ hdOps < MaxHdOps
    /\ hdOps' = hdOps + 1
    /\ hdLast' = Result([IdleCall EXCEPT !.w = w, !.op = op,
                                         !.before = Caches(w)], TRUE, "",
                        IF op = "getBasePath" THEN <<hdBasePath[w]>> ELSE <<"keyId">>)
    /\ UNCHANGED <<hdCall, hdBasePath, oracleDeterministic, fixedSeed, cachedSeed,
                   cachedMasterNode, hdSignCalls, hdHistory>>

\* The calls, for the callers cs on the identities ws.
HdGetAddress(cs, ws) ==
    \E c \in cs, w \in ws, i \in HdIndices : HdStart(c, w, "getAddress", i)
HdOtherDerivation(cs, ws) ==
    \E c \in cs, w \in ws, i \in HdIndices, op \in DeriveOps \ {"getAddress"} :
        HdStart(c, w, op, i)
HdGetAddresses(cs, ws) ==
    \E c \in cs, w \in ws, n \in 0 .. MaxCount, i \in HdIndices :
        HdStartGetAddresses(c, w, n, i)
\* getAddresses(count): the start index is its default, 0.
HdGetAddressesFromZero(cs, ws) ==
    \E c \in cs, w \in ws, n \in 0 .. MaxCount : HdStartGetAddresses(c, w, n, 0)
HdGetKeyId(cs, ws) == \E c \in cs, w \in ws : HdGetter(c, w, "getKeyId")
HdGetBasePath(cs, ws) == \E c \in cs, w \in ws : HdGetter(c, w, "getBasePath")

\* ==================================== KmsSigner and KmsWalletProvider
\* Both classes wrap a KmsWallet (the wallet above) and a provider, and keep
\* a cachedAddress and a nonceCache of their own.  The object under study
\* is of one class or the other; senderClass says which.

SendCallers == {1, 2}
SenderClasses == {"KmsSigner", "KmsWalletProvider"}
ProviderError == "ProviderError"

VARIABLES
    senderClass,          \* the class of the object
    senderCachedAddress,  \* its cachedAddress, None or the address
    nonceCache,           \* its nonceCache, None or Some(n)
    chainStart,           \* the pending transaction count at construction
    pool,                 \* nonces of the transactions the node accepted
    sendCall,             \* per caller: the call in flight
    sendOps,              \* calls started
    sendLast,             \* the last call that ended
    sendHistory,          \* what the calls did so far
    senderProvider,       \* the provider the object is bound to
    connectLast           \* the last connect call: its argument, what it returned

sendVars == <<senderClass, senderCachedAddress, nonceCache, chainStart, pool,
              sendCall, sendOps, sendLast, sendHistory>>
connectVars == <<senderProvider, connectLast>>

\* The providers of the model, and the KmsWallet a sender is constructed
\* with (the wallet above).
Providers == {"provider1", "provider2"}
TheKmsWallet == "kmsWallet"
NoConnect == [provider |-> "none", returned |-> None]

\* provider.getTransactionCount(address, 'pending') when the address has no
\* other sender: the first nonce for which the node holds no transaction.
PendingCount(start, accepted) ==
    CHOOSE n \in start .. start + Cardinality(accepted) :
        /\ n \notin accepted
        /\ \A m \in start .. n - 1 : m \in accepted

\* provider.broadcastTransaction can accept a transaction whose nonce is
\* not used up: a nonce that is free, or the nonce of a transaction the
\* node holds, which the new one replaces when it pays more (the node
\* refuses it when it does not: the broadcast then fails).
Acceptable(start, accepted, nonce) == nonce >= start

IdleSend == [pc |-> "idle", op |-> "none", explicit |-> None, nonce |-> 0]
\* The call that ended last: how it ended, the nonce it had chosen, the
\* await it ended at and the nonce cache it found there.
NoSend == [op |-> "none", ok |-> TRUE, err |-> "", explicit |-> None, nonce |-> 0,
           cacheBefore |-> None, at |-> "idle"]
\* signed: the nonces signTransaction signed; sent: the nonces of the
\* transactions broadcast; whether a request named its nonce, a call was
\* of signTransaction alone, a call failed, two calls were in flight
\* together.
NoSendHistory == [signed |-> <<>>, sent |-> <<>>, explicitUsed |-> FALSE,
                  signOnly |-> FALSE, failed |-> FALSE, overlapped |-> FALSE]

SendInit ==
    /\ senderClass \in SenderClasses
    /\ senderCachedAddress = None
    /\ nonceCache = None
    /\ chainStart \in ChainStarts
    /\ pool = {}
    /\ sendCall = [c \in SendCallers |-> IdleSend]
    /\ sendOps = 0
    /\ sendLast = NoSend
    /\ sendHistory = NoSendHistory
    /\ senderProvider = "provider1"
    /\ connectLast = NoConnect

SendInFlight == {c \in SendCallers : sendCall[c].pc # "idle"}

\* The call of caller c ends by throwing err.
SendFails(c, err) ==
    /\ sendCall' = [sendCall EXCEPT ![c] = IdleSend]
    /\ sendLast' = [op |-> sendCall[c].op, ok |-> FALSE, err |-> err,
                    explicit |-> sendCall[c].explicit, nonce |-> sendCall[c].nonce,
                    cacheBefore |-> nonceCache, at |-> sendCall[c].pc]
    /\ sendHistory' = [sendHistory EXCEPT !.failed = TRUE]

\* The call of caller c returns; history is the history it leaves.
SendReturns(c, nonce, history) ==
    /\ sendCall' = [sendCall EXCEPT ![c] = IdleSend]
    /\ sendLast' = [op |-> sendCall[c].op, ok |-> TRUE, err |-> "",
                    explicit |-> sendCall[c].explicit, nonce |-> nonce,
                    cacheBefore |-> nonceCache, at |-> sendCall[c].pc]
    /\ sendHistory' = history

\* A call starts: KmsSigner.signTransaction, KmsSigner.sendTransaction
\* (which calls signTransaction) or KmsWalletProvider.sendTransaction, up to
\* its first await.
SendStart(c, class, op, explicit) ==
    /\ senderClass = class
    /\ sendCall[c].pc = "idle"
    /\ sendOps < MaxSends
    /\ sendOps' = sendOps + 1
    /\ sendCall' = [sendCall EXCEPT ![c] =
            [pc |-> "getAddress", op |-> op, explicit |-> explicit, nonce |-> 0]]
    /\ sendHistory' = [sendHistory EXCEPT
            !.overlapped = @ \/ SendInFlight # {},
            !.explicitUsed = @ \/ IsSet(explicit),
            !.signOnly = @ \/ op = "signTransaction"]
    /\ UNCHANGED <<senderClass, senderCachedAddress, nonceCache, chainStart, pool,
                   sendLast, walletVars>>

\* Mutant of SendGetAddress: the cached nonce is preferred to the nonce of
\* the request.
SendGetAddressCacheFirst(c) ==
    /\ sendCall[c].pc = "getAddress"
    /\ \E pubResp \in PubChoices(kmsKey, cachedPublicKey, cachedAddress) :
          LET call == sendCall[c]
              from == IF IsSet(senderCachedAddress)
                      THEN [ok |-> TRUE, err |-> "", value |-> senderCachedAddress,
                            cachedPublicKey |-> cachedPublicKey,
                            cachedAddress |-> cachedAddress, calls |-> 0]
                      ELSE getAddress(cachedPublicKey, cachedAddress, pubResp)
          IN  /\ cachedPublicKey' = from.cachedPublicKey
              /\ cachedAddress' = from.cachedAddress
              /\ pubKeyCalls' = pubKeyCalls + from.calls
              /\ IF ~from.ok
                 THEN /\ SendFails(c, from.err)
                      /\ UNCHANGED senderCachedAddress
                 ELSE /\ senderCachedAddress' = from.value
                      /\ sendCall' = [sendCall EXCEPT ![c] =
                            IF IsSet(nonceCache)
                            THEN [call EXCEPT !.pc = "sign", !.nonce = nonceCache[1]]
                            ELSE IF IsSet(call.explicit)
                            THEN [call EXCEPT !.pc = "sign", !.nonce = call.explicit[1]]
                            ELSE [call EXCEPT !.pc = "awaitCount"]]
                      /\ UNCHANGED <<sendLast, sendHistory>>
    /\ UNCHANGED <<senderClass, nonceCache, chainStart, pool, sendOps,
                   impl, kmsKey, signCalls, opCount, last>>

\* const from = await this.getAddress(), and the choice of the nonce that
\* follows it: the request's, the cached one, or the provider's count.
SendGetAddress(c) ==
    /\ sendCall[c].pc = "getAddress"
    /\ \E pubResp \in PubChoices(kmsKey, cachedPublicKey, cachedAddress) :
          LET call == sendCall[c]
              from == IF IsSet(senderCachedAddress)
                      THEN [ok |-> TRUE, err |-> "", value |-> senderCachedAddress,
                            cachedPublicKey |-> cachedPublicKey,
                            cachedAddress |-> cachedAddress, calls |-> 0]
                      ELSE getAddress(cachedPublicKey, cachedAddress, pubResp)
          IN  /\ cachedPublicKey' = from.cachedPublicKey
              /\ cachedAddress' = from.cachedAddress
              /\ pubKeyCalls' = pubKeyCalls + from.calls
              /\ IF ~from.ok
                 THEN /\ SendFails(c, from.err)
                      /\ UNCHANGED senderCachedAddress
                 ELSE /\ senderCachedAddress' = from.value
                      /\ sendCall' = [sendCall EXCEPT ![c] =
                            IF IsSet(call.explicit)
                            THEN [call EXCEPT !.pc = "sign", !.nonce = call.explicit[1]]
                            ELSE IF IsSet(nonceCache)
                            THEN [call EXCEPT !.pc = "sign", !.nonce = nonceCache[1]]
                            ELSE [call EXCEPT !.pc = "awaitCount"]]
                      /\ UNCHANGED <<sendLast, sendHistory>>
    /\ UNCHANGED <<senderClass, nonceCache, chainStart, pool, sendOps,
                   impl, kmsKey, signCalls, opCount, last>>

\* nonce = await provider.getTransactionCount(from, 'pending'); then
\* getFeeData, getNetwork and resolveAddress, which change nothing.
SendCount(c) ==
    /\ sendCall[c].pc = "awaitCount"
    /\ \/ /\ sendCall' = [sendCall EXCEPT ![c] =
                [@ EXCEPT !.pc = "sign", !.nonce = PendingCount(chainStart, pool)]]
          /\ UNCHANGED <<sendLast, sendHistory>>
       \/ SendFails(c, ProviderError)
    /\ UNCHANGED <<senderClass, senderCachedAddress, nonceCache, chainStart, pool,
                   sendOps, walletVars>>

\* Mutant of SendSign: signTransaction leaves the nonce that follows the
\* one it signed in the nonce cache.
SendSignAdvances(c) ==
    /\ sendCall[c].pc = "sign"
    /\ LET call   == sendCall[c]
           digest == unsignedHash([nonce |-> call.nonce])
       IN  \E signResp \in SignResponses(digest),
              pubResp \in PubChoices(kmsKey, cachedPublicKey, cachedAddress) :
              \E res \in {signDigest(impl, digest, signResp, pubResp,
                                    cachedPublicKey, cachedAddress)} :
              LET signed == [sendHistory EXCEPT !.signed = Append(@, call.nonce)]
              IN  /\ cachedPublicKey' = res.cachedPublicKey
                  /\ cachedAddress' = res.cachedAddress
                  /\ signCalls' = signCalls + res.signCalls
                  /\ pubKeyCalls' = pubKeyCalls + res.pubCalls
                  /\ IF ~res.ok THEN SendFails(c, res.err) /\ UNCHANGED nonceCache
                     ELSE IF call.op = "signTransaction"
                     THEN /\ SendReturns(c, call.nonce, signed)
                          /\ nonceCache' = Some(call.nonce + 1)
                     ELSE /\ sendCall' = [sendCall EXCEPT ![c].pc = "broadcast"]
                          /\ sendHistory' = signed
                          /\ UNCHANGED <<sendLast, nonceCache>>
    /\ UNCHANGED <<senderClass, senderCachedAddress, chainStart, pool,
                   sendOps, impl, kmsKey, opCount, last>>

\* await this.kmsWallet.signTransaction(tx): KmsWallet.signDigest on the
\* transaction's unsigned hash.  KmsSigner.signTransaction returns here.
SendSign(c) ==
    /\ sendCall[c].pc = "sign"
    /\ LET call   == sendCall[c]
           digest == unsignedHash([nonce |-> call.nonce])
       IN  \E signResp \in SignResponses(digest),
              pubResp \in PubChoices(kmsKey, cachedPublicKey, cachedAddress) :
              \E res \in {signDigest(impl, digest, signResp, pubResp,
                                    cachedPublicKey, cachedAddress)} :
              LET signed == [sendHistory EXCEPT !.signed = Append(@, call.nonce)]
              IN  /\ cachedPublicKey' = res.cachedPublicKey
                  /\ cachedAddress' = res.cachedAddress
                  /\ signCalls' = signCalls + res.signCalls
                  /\ pubKeyCalls' = pubKeyCalls + res.pubCalls
                  /\ IF ~res.ok THEN SendFails(c, res.err)
                     ELSE IF call.op = "signTransaction"
                     THEN SendReturns(c, call.nonce, signed)
                     ELSE /\ sendCall' = [sendCall EXCEPT ![c].pc = "broadcast"]
                          /\ sendHistory' = signed
                          /\ UNCHANGED sendLast
    /\ UNCHANGED <<senderClass, senderCachedAddress, nonceCache, chainStart, pool,
                   sendOps, impl, kmsKey, opCount, last>>

\* Mutant of ProviderBroadcast: the nonce cache is set from the provider's
\* count, which already counts the transaction, plus one.
ProviderBroadcastFromCount(c) ==
    /\ senderClass = "KmsWalletProvider"
    /\ sendCall[c].pc = "broadcast"
    /\ Acceptable(chainStart, pool, sendCall[c].nonce)
    /\ pool' = pool \cup {sendCall[c].nonce}
    /\ nonceCache' = Some(PendingCount(chainStart, pool') + 1)
    /\ SendReturns(c, sendCall[c].nonce,
                   [sendHistory EXCEPT !.sent = Append(@, sendCall[c].nonce)])
    /\ UNCHANGED <<senderClass, senderCachedAddress, chainStart, sendOps, walletVars>>

\* KmsWalletProvider.sendTransaction from the broadcast on:
\* await broadcastTransaction(signedTx); this.nonceCache = nonce + 1.
ProviderBroadcast(c) ==
    /\ senderClass = "KmsWalletProvider"
    /\ sendCall[c].pc = "broadcast"
    /\ LET nonce == sendCall[c].nonce
       IN  \/ /\ Acceptable(chainStart, pool, nonce)
              /\ pool' = pool \cup {nonce}
              /\ nonceCache' = Some(nonce + 1)
              /\ SendReturns(c, nonce, [sendHistory EXCEPT !.sent = Append(@, nonce)])
           \/ /\ SendFails(c, ProviderError)
              /\ UNCHANGED <<pool, nonceCache>>
    /\ UNCHANGED <<senderClass, senderCachedAddress, chainStart, sendOps, walletVars>>

\* Mutant of SignerBroadcast: the nonce cache is advanced before the
\* broadcast is awaited, so that it is advanced also when the broadcast
\* fails.
SignerBroadcastAdvanceFirst(c) ==
    /\ senderClass = "KmsSigner"
    /\ sendCall[c].pc = "broadcast"
    /\ LET nonce == sendCall[c].nonce
           sent  == [sendHistory EXCEPT !.sent = Append(@, nonce)]
           next  == IF IsSet(nonceCache) THEN Some(nonceCache[1] + 1) ELSE nonceCache
       IN  \/ /\ Acceptable(chainStart, pool, nonce)
              /\ pool' = pool \cup {nonce}
              /\ nonceCache' = next
              /\ IF IsSet(nonceCache)
                 THEN SendReturns(c, nonce, sent)
                 ELSE /\ sendCall' = [sendCall EXCEPT ![c].pc = "initCache"]
                      /\ sendHistory' = sent
                      /\ UNCHANGED sendLast
           \/ /\ SendFails(c, ProviderError)
              /\ nonceCache' = next
              /\ UNCHANGED pool
    /\ UNCHANGED <<senderClass, senderCachedAddress, chainStart, sendOps, walletVars>>

\* KmsSigner.sendTransaction from the broadcast on:
\* await broadcastTransaction(signedTx); then nonceCache++ when the cache
\* is set, else the cache is initialized from the provider (two awaits).
SignerBroadcast(c) ==
    /\ senderClass = "KmsSigner"
    /\ sendCall[c].pc = "broadcast"
    /\ LET nonce == sendCall[c].nonce
           sent  == [sendHistory EXCEPT !.sent = Append(@, nonce)]
       IN  \/ /\ Acceptable(chainStart, pool, nonce)
              /\ pool' = pool \cup {nonce}
              /\ IF IsSet(nonceCache)
                 THEN /\ nonceCache' = Some(nonceCache[1] + 1)
                      /\ SendReturns(c, nonce, sent)
                 ELSE /\ sendCall' = [sendCall EXCEPT ![c].pc = "initCache"]
                      /\ sendHistory' = sent
                      /\ UNCHANGED <<nonceCache, sendLast>>
           \/ /\ SendFails(c, ProviderError)
              /\ UNCHANGED <<pool, nonceCache>>
    /\ UNCHANGED <<senderClass, senderCachedAddress, chainStart, sendOps, walletVars>>

\* const address = await this.getAddress() (cached by now);
\* const currentNonce = await provider.getTransactionCount(address, 'pending');
\* this.nonceCache = currentNonce + 1.
SignerInitCache(c) ==
    /\ senderClass = "KmsSigner"
    /\ sendCall[c].pc = "initCache"
    /\ \/ /\ nonceCache' = Some(PendingCount(chainStart, pool) + 1)
          /\ SendReturns(c, sendCall[c].nonce, sendHistory)
       \/ /\ SendFails(c, ProviderError)
          /\ UNCHANGED nonceCache
    /\ UNCHANGED <<senderClass, senderCachedAddress, chainStart, pool, sendOps,
                   walletVars>>

\* A request with or without a nonce of its own.
RequestNonces == {None} \cup {Some(n) : n \in ExplicitNonces}

\* The calls of the callers cs.
SignerSignTransaction(cs) ==
    \E c \in cs, explicit \in RequestNonces :
        SendStart(c, "KmsSigner", "signTransaction", explicit)
SignerSendTransaction(cs) ==
    \E c \in cs, explicit \in RequestNonces :
        SendStart(c, "KmsSigner", "sendTransaction", explicit)
ProviderSendTransaction(cs) ==
    \E c \in cs, explicit \in RequestNonces :
        SendStart(c, "KmsWalletProvider", "sendTransaction", explicit)

\* new KmsSigner(config): the wallet and the provider of the config, no
\* cached address, no nonce cache.
NewKmsSigner(kmsWallet, provider) ==
    [provider |-> provider, kmsWallet |-> kmsWallet, cachedAddress |-> None,
     nonceCache |-> None]

\* Mutant of SignerConnect: the new signer takes over the caches of the
\* original.
SignerConnectCopy(provider) ==
    /\ senderClass = "KmsSigner"
    /\ connectLast' = [provider |-> provider,
                       returned |-> Some([NewKmsSigner(TheKmsWallet, provider) EXCEPT
                                            !.cachedAddress = senderCachedAddress,
                                            !.nonceCache = nonceCache])]
    /\ UNCHANGED <<senderProvider, sendVars, walletVars>>

\* signer.connect(provider): synchronous, at any time.
SignerConnect(provider) ==
    /\ senderClass = "KmsSigner"
    /\ connectLast' = [provider |-> provider,
                       returned |-> Some(NewKmsSigner(TheKmsWallet, provider))]
    /\ UNCHANGED <<senderProvider, sendVars, walletVars>>

\* ===================================================== specifications
vars == <<walletVars, hdVars, sendVars, connectVars>>

\* Each specification starts the objects it is about as their constructors
\* leave them, in every configuration, and keeps the other objects as
\* constructed, in one configuration.
WalletIdle ==
    /\ WalletInit
    /\ impl = "KmsWallet.ts"
    /\ kmsKey = 5

HdIdle ==
    /\ HdInit
    /\ hdBasePath = [w \in HdWallets |-> DefaultBasePath]
    /\ oracleDeterministic = TRUE
    /\ fixedSeed = [len |-> 71]

SendIdle ==
    /\ SendInit
    /\ senderClass = "KmsSigner"
    /\ chainStart = 0

Init == WalletInit /\ HdInit /\ SendInit

\* KmsWallet: one caller, one operation after the other.
InitWallet == WalletInit /\ HdIdle /\ SendIdle
WalletNext ==
    \/ WalletGetPublicKey /\ UNCHANGED <<hdVars, sendVars, connectVars>>
    \/ WalletGetAddress /\ UNCHANGED <<hdVars, sendVars, connectVars>>
    \/ WalletSign /\ UNCHANGED <<hdVars, sendVars, connectVars>>
SpecWallet == InitWallet /\ [][WalletNext]_vars

\* KmsWallet: one sign operation on whatever the oracle may answer.
ParseNext ==
    \/ WalletSignBuffer /\ UNCHANGED <<hdVars, sendVars, connectVars>>
SpecParse == InitWallet /\ [][ParseNext]_vars

\* KmsWallet or KmsHdWallet in front of the oracle: a run works on one of
\* the two objects, one caller, one operation after the other.  The wallet
\* is given one operation less than MaxOps: an operation that fills the
\* caches and one that follows it meet the oracle in every way there is.
InitOracle ==
    \/ WalletInit /\ HdIdle /\ SendIdle
    \/ WalletIdle /\ HdInit /\ SendIdle
OracleNext ==
    \/ HdIdle /\ opCount + 1 < MaxOps /\ WalletGetPublicKey /\ UNCHANGED <<hdVars, sendVars, connectVars>>
    \/ HdIdle /\ opCount + 1 < MaxOps /\ WalletGetAddress /\ UNCHANGED <<hdVars, sendVars, connectVars>>
    \/ HdIdle /\ opCount + 1 < MaxOps /\ WalletSign /\ UNCHANGED <<hdVars, sendVars, connectVars>>
    \/ WalletIdle /\ HdGetAddress({1}, {1}) /\ UNCHANGED <<walletVars, sendVars, connectVars>>
    \/ WalletIdle /\ HdOtherDerivation({1}, {1}) /\ UNCHANGED <<walletVars, sendVars, connectVars>>
    \/ WalletIdle /\ HdGetAddresses({1}, {1}) /\ UNCHANGED <<walletVars, sendVars, connectVars>>
    \/ HdSignResponse(1) /\ UNCHANGED <<walletVars, sendVars, connectVars>>
    \/ HdBuildMaster(1) /\ UNCHANGED <<walletVars, sendVars, connectVars>>
    \/ HdDerive(1) /\ UNCHANGED <<walletVars, sendVars, connectVars>>
SpecOracle == InitOracle /\ [][OracleNext]_vars

\* KmsHdWallet: one caller who awaits each call before the next; every
\* operation on identity 1, and getAddress on the second identity as well.
InitHd == HdInit /\ WalletIdle /\ SendIdle
HdNext ==
    \/ HdGetAddress({1}, HdWallets) /\ UNCHANGED <<walletVars, sendVars, connectVars>>
    \/ HdOtherDerivation({1}, {1}) /\ UNCHANGED <<walletVars, sendVars, connectVars>>
    \/ HdGetAddresses({1}, {1}) /\ UNCHANGED <<walletVars, sendVars, connectVars>>
    \/ HdGetKeyId({1}, {1}) /\ UNCHANGED <<walletVars, sendVars, connectVars>>
    \/ HdGetBasePath({1}, {1}) /\ UNCHANGED <<walletVars, sendVars, connectVars>>
    \/ HdSignResponse(1) /\ UNCHANGED <<walletVars, sendVars, connectVars>>
    \/ HdBuildMaster(1) /\ UNCHANGED <<walletVars, sendVars, connectVars>>
    \/ HdDerive(1) /\ UNCHANGED <<walletVars, sendVars, connectVars>>
SpecHd == InitHd /\ [][HdNext]_vars

\* KmsHdWallet: callers whose getAddress and getAddresses calls on one
\* identity overlap.  The callers are interchangeable: a call is started
\* by the first caller that has none in flight.
HdFreeCaller ==
    {c \in HdCallers : hdCall[c].pc = "idle"
                         /\ \A d \in HdCallers : d < c => hdCall[d].pc # "idle"}
InitHdConcurrent == InitHd /\ hdBasePath[2] = DefaultBasePath
HdConcurrentNext ==
    \/ HdGetAddress(HdFreeCaller, {1}) /\ UNCHANGED <<walletVars, sendVars, connectVars>>
    \/ HdGetAddressesFromZero(HdFreeCaller, {1}) /\ UNCHANGED <<walletVars, sendVars, connectVars>>
    \/ \E c \in HdCallers : HdSignResponse(c) /\ UNCHANGED <<walletVars, sendVars, connectVars>>
    \/ \E c \in HdCallers : HdBuildMaster(c) /\ UNCHANGED <<walletVars, sendVars, connectVars>>
    \/ \E c \in HdCallers : HdDerive(c) /\ UNCHANGED <<walletVars, sendVars, connectVars>>
SpecHdConcurrent == InitHdConcurrent /\ [][HdConcurrentNext]_vars

\* KmsSigner over its KmsWallet: one caller who awaits each call before the
\* next.
InitSigner == SendInit /\ senderClass = "KmsSigner" /\ WalletIdle /\ HdIdle
SignerNext ==
    \/ SignerSignTransaction({1}) /\ UNCHANGED <<hdVars, connectVars>>
    \/ SignerSendTransaction({1}) /\ UNCHANGED <<hdVars, connectVars>>
    \/ SendGetAddress(1) /\ UNCHANGED <<hdVars, connectVars>>
    \/ SendCount(1) /\ UNCHANGED <<hdVars, connectVars>>
    \/ SendSign(1) /\ UNCHANGED <<hdVars, connectVars>>
    \/ SignerBroadcast(1) /\ UNCHANGED <<hdVars, connectVars>>
    \/ SignerInitCache(1) /\ UNCHANGED <<hdVars, connectVars>>
SpecSigner == InitSigner /\ [][SignerNext]_vars

\* KmsSigner with connect: the calls above, and connect at any time.
ConnectNext ==
    \/ SignerNext
    \/ \E provider \in Providers : SignerConnect(provider) /\ UNCHANGED hdVars
SpecConnect == InitSigner /\ [][ConnectNext]_vars

\* KmsWalletProvider over its KmsWallet: one caller who awaits each call
\* before the next.
InitProvider ==
    SendInit /\ senderClass = "KmsWalletProvider" /\ WalletIdle /\ HdIdle
ProviderNext ==
    \/ ProviderSendTransaction({1}) /\ UNCHANGED <<hdVars, connectVars>>
    \/ SendGetAddress(1) /\ UNCHANGED <<hdVars, connectVars>>
    \/ SendCount(1) /\ UNCHANGED <<hdVars, connectVars>>
    \/ SendSign(1) /\ UNCHANGED <<hdVars, connectVars>>
    \/ ProviderBroadcast(1) /\ UNCHANGED <<hdVars, connectVars>>
SpecProvider == InitProvider /\ [][ProviderNext]_vars

\* An object of either class and the callers cs.
InitSenders == SendInit /\ WalletIdle /\ HdIdle
SendersNext(cs) ==
    \/ SignerSignTransaction(cs) /\ UNCHANGED <<hdVars, connectVars>>
    \/ SignerSendTransaction(cs) /\ UNCHANGED <<hdVars, connectVars>>
    \/ ProviderSendTransaction(cs) /\ UNCHANGED <<hdVars, connectVars>>
    \/ \E c \in cs : SendGetAddress(c) /\ UNCHANGED <<hdVars, connectVars>>
    \/ \E c \in cs : SendCount(c) /\ UNCHANGED <<hdVars, connectVars>>
    \/ \E c \in cs : SendSign(c) /\ UNCHANGED <<hdVars, connectVars>>
    \/ \E c \in cs : SignerBroadcast(c) /\ UNCHANGED <<hdVars, connectVars>>
    \/ \E c \in cs : SignerInitCache(c) /\ UNCHANGED <<hdVars, connectVars>>
    \/ \E c \in cs : ProviderBroadcast(c) /\ UNCHANGED <<hdVars, connectVars>>

\* KmsSigner or KmsWalletProvider: one caller who awaits each call before
\* the next.
SendersSequentialNext == SendersNext({1})
SpecSenders == InitSenders /\ [][SendersSequentialNext]_vars

\* KmsSigner or KmsWalletProvider: callers whose calls on the object
\* overlap.
SendersConcurrentNext == SendersNext(SendCallers)
SpecSendersConcurrent == InitSenders /\ [][SendersConcurrentNext]_vars

\* ================================================= KmsWallet: the claims
\* The last operation was a sign operation (personalSign, signTransaction).
LastIsSign == last.op \in {"personalSign", "signTransaction"}
\* r and s as the oracle computed them for the last sign operation.
LastRaw == EcdsaSign(last.resp.signer, last.digest, last.resp.nonce)
\* What parseDERSignature made of the oracle's answer.
LastParsed == Parse(impl, last.resp.bytes)

\* C1: whenever personalSign or signTransaction returns, its signature has
\* v in {27, 28} and recovering the signer from (r, s, v) against the signed
\* digest yields the address getAddress() of the same wallet returns (the
\* cached address, which the sign operation has set).
C1_SignatureRecoversAddress ==
    (LastIsSign /\ last.ok) =>
        /\ last.sig.v \in {27, 28}
        /\ IsSet(cachedAddress)
        /\ recoverAddress(last.digest, last.sig.r, last.sig.s, last.sig.v) = cachedAddress
        /\ getAddress(cachedPublicKey, cachedAddress, NoPubResp).value = cachedAddress

C1_Witness ==
    /\ last.op = "signTransaction"
    /\ last.ok
    /\ last.sig.v = 28
    /\ last.resp.signer = kmsKey

\* C2: for every oracle signature with s in 1 .. n-1, the s the pipeline
\* puts out (the parsed s, and the s of the returned signature) is at most
\* n / 2.
C2_LowS ==
    (LastIsSign /\ last.resp.kind = "signature" /\ LastRaw.s \in 1 .. N - 1) =>
        /\ LastParsed.ok
        /\ BytesToInt(LastParsed.s) <= halfN
        /\ last.ok => BytesToInt(last.sig.s) <= halfN

C2_Witness ==
    /\ LastIsSign
    /\ last.ok
    /\ LastRaw.s > halfN
    /\ BytesToInt(last.sig.s) <= halfN

\* C3: when the oracle's s exceeds n / 2 the pipeline puts out s' = n - s
\* with r unchanged, and searches the recovery id on s': an honest answer is
\* signed (once the address is known), and the returned v recovers the
\* wallet's address from (digest, r, s').
C3_FlipThenSearch ==
    (LastIsSign /\ last.resp.kind = "signature" /\ LastRaw.s > halfN) =>
        /\ LastParsed.ok
        /\ BytesToInt(LastParsed.s) = N - LastRaw.s
        /\ BytesToInt(LastParsed.r) = LastRaw.r
        /\ (last.resp.signer = kmsKey /\ IsSet(cachedAddress)) => last.ok
        /\ last.ok =>
              /\ last.sig.r = ToBytes(LastRaw.r)
              /\ last.sig.s = ToBytes(N - LastRaw.s)
              /\ recoverAddress(last.digest, last.sig.r, last.sig.s, last.sig.v)
                    = Some(ComputeAddress(kmsKey))

C3_Witness ==
    /\ LastIsSign
    /\ last.ok
    /\ LastRaw.s >= 128 * ByteBase
    /\ last.resp.signer = kmsKey
    /\ EcdsaRecover(last.digest, LastRaw.r, LastRaw.s, last.sig.v - 27) # kmsKey

\* C10: when the search is reached and neither v = 27 nor v = 28 recovers
\* the expected address from (digest, r, s), the operation fails with the
\* recovery-parameter-not-found error and returns no signature.
C10_NoRecoveryIdIsAnError ==
    (/\ LastIsSign
     /\ last.resp.kind = "signature"
     /\ LastParsed.ok
     /\ IsSet(cachedAddress)
     /\ \A v \in {27, 28} :
           recoverAddress(last.digest, LastParsed.r, LastParsed.s, v) # cachedAddress)
    => (~last.ok /\ last.err = RecoveryError /\ last.sig = NoSig)

C10_Witness ==
    /\ LastIsSign
    /\ last.resp.kind = "signature"
    /\ last.resp.signer # kmsKey
    /\ IsSet(cachedAddress)
    /\ last.err = RecoveryError

\* =============================================== KmsHdWallet: the claims
\* No call is in flight on the identity.
AtRest(w) == InFlight(w) = {}

\* C4: with a deterministic oracle, getAddress(i) returns the same string
\* whenever it returns: on one identity (first call and calls served from
\* the cache) and on two identities constructed with the same key and base
\* path.
C4_SameAddressEveryCall ==
    oracleDeterministic =>
        \A w1 \in HdWallets, w2 \in HdWallets, i \in HdIndices :
            hdBasePath[w1] = hdBasePath[w2] =>
                Cardinality(hdHistory[w1].returned[i] \cup hdHistory[w2].returned[i]) <= 1

\* Two identities have both answered getAddress for the same index.
C4_Witness ==
    /\ oracleDeterministic
    /\ hdBasePath[1] = hdBasePath[2]
    /\ \E i \in HdIndices :
          hdHistory[1].returned[i] # {} /\ hdHistory[2].returned[i] # {}

\* C5 as stated: whatever the length of the seed, the entropy has 16, 20,
\* 24, 28 or 32 bytes and building the mnemonic never fails.
C5_EntropyAlwaysValid ==
    /\ \A c \in HdCallers :
          hdCall[c].pc = "haveSeed" => MnemonicOk(entropyFromSeed(hdCall[c].seed))
    /\ hdLast.err # EntropyError

\* C8 as stated: an identity no call is in flight on has nothing cached
\* (SeedUnresolved) or its master node cached (SeedResolved).
C8_TwoStates ==
    \A w \in HdWallets :
        AtRest(w) =>
            \/ cachedSeed[w] = None /\ cachedMasterNode[w] = None
            \/ IsSet(cachedMasterNode[w])

\* C9 as stated: no Sign call before the first derivation-dependent
\* operation; over sequential successful ones exactly one Sign call, sent
\* by the first of them.
C9_OneSignCallByFirstOperation ==
    \A w \in HdWallets :
        (~hdHistory[w].failed /\ ~hdHistory[w].overlapped) =>
            hdSignCalls[w] =
                (IF hdHistory[w].done = 0 /\ AtRest(w) THEN 0 ELSE 1)

\* C9, amended: constructing an identity, getKeyId, getBasePath and
\* getAddresses with count 0 send no Sign call; over sequential successful
\* operations exactly one Sign call is sent, by the first operation that
\* derives a child, and none after it.
C9_OneSignCallByFirstDerivation ==
    \A w \in HdWallets :
        (~hdHistory[w].failed /\ ~hdHistory[w].overlapped) =>
            hdSignCalls[w] = (IF hdHistory[w].derivations = 0 THEN 0 ELSE 1)

\* Two derivation operations have returned on an identity, the second a
\* signMessage.
C9_Witness ==
    /\ hdHistory[1].done = 2
    /\ hdHistory[1].derivations = 2
    /\ ~hdHistory[1].failed
    /\ hdSignCalls[1] = 1
    /\ hdLast.op = "signMessage"

\* ============================= KmsSigner, KmsWalletProvider: the claims
\* Every call so far was a sendTransaction without a nonce of its own that
\* was awaited and succeeded.
PlainSequentialSends ==
    /\ ~sendHistory.explicitUsed
    /\ ~sendHistory.failed
    /\ ~sendHistory.overlapped
    /\ ~sendHistory.signOnly

\* The nonces are chainStart, chainStart + 1, ...
Consecutive(nonces) == \A i \in 1 .. Len(nonces) : nonces[i] = chainStart + i - 1

\* C6 as stated: sequential sendTransaction calls of a KmsSigner without a
\* nonce of their own, each broadcast succeeding and counted by the
\* provider, are signed with the consecutive nonces n0, n0 + 1, ...
C6_SignerConsecutiveNonces ==
    (senderClass = "KmsSigner" /\ PlainSequentialSends) =>
        Consecutive(sendHistory.signed)

\* C7: sequential sendTransaction calls of a KmsWalletProvider without a
\* nonce of their own, each broadcast succeeding, are signed with the
\* consecutive nonces n0, n0 + 1, ..., n0 being the pending transaction
\* count before the first call.
C7_ProviderConsecutiveNonces ==
    (senderClass = "KmsWalletProvider" /\ PlainSequentialSends) =>
        Consecutive(sendHistory.signed)

\* Three such calls have returned.
C7_Witness ==
    /\ senderClass = "KmsWalletProvider"
    /\ PlainSequentialSends
    /\ SendInFlight = {}
    /\ Len(sendHistory.sent) = 3
    /\ chainStart = 2
    /\ pool = {2, 3, 4}

\* ===================================== KmsWallet: the claims on parsing
\* The errors parseDERSignature throws.
MalformedErrors ==
    {"Invalid DER signature", "Invalid DER signature: R marker",
     "Invalid DER signature: S marker"}
\* The bytes the last Sign call answered.
LastBytes == last.resp.bytes
LastIsBuffer == LastIsSign /\ last.resp.kind = "signature"
\* Where the buffer declares its parts: the length byte of r, the tag of s
\* behind the declared r, the length byte of s.
RDeclared(b) == At(b, 3)
STagAt(b) == 4 + RDeclared(b)
SDeclared(b) == At(b, STagAt(b) + 1)
\* The first byte is not 0x30, or the tag of r or of s is not 0x02 (a tag
\* that is not there is not 0x02 either).
BadTags(b) ==
    \/ At(b, 0) # DerSeqTag
    \/ At(b, 2) # DerIntTag
    \/ RDeclared(b) < 0
    \/ At(b, STagAt(b)) # DerIntTag
\* The bytes of a value without any leading zero byte.
RECURSIVE TrueBytes(_)
TrueBytes(b) == IF Len(b) > 0 /\ b[1] = 0 THEN TrueBytes(Tail(b)) ELSE b

\* C11: a buffer whose first byte is not 0x30, or whose r or s tag is not
\* 0x02, is rejected with a malformed-signature error, and the sign
\* operation ends there: it has not asked for the public key, has cached no
\* address and returns no signature.
C11_BadTagsRejectedFirst ==
    (LastIsBuffer /\ BadTags(LastBytes)) =>
        /\ ~LastParsed.ok
        /\ ~last.ok
        /\ last.err \in MalformedErrors
        /\ last.sig = NoSig
        /\ last.calls = [sign |-> 1, pub |-> 0]
        /\ opCount = 1 => (cachedAddress = None /\ cachedPublicKey = None)

\* A buffer with the right first byte and r tag and a wrong s tag was
\* rejected.
C11_Witness ==
    /\ LastIsBuffer
    /\ At(LastBytes, 0) = DerSeqTag
    /\ At(LastBytes, 2) = DerIntTag
    /\ At(LastBytes, STagAt(LastBytes)) = WrongIntTag
    /\ last.err = "Invalid DER signature: S marker"
    /\ pubKeyCalls = 0

\* The declared length of r, or of s, runs past the end of the buffer.
RPastEnd(b) == RDeclared(b) >= 0 /\ 4 + RDeclared(b) > Len(b)
SPastEnd(b) == SDeclared(b) >= 0 /\ STagAt(b) + 2 + SDeclared(b) > Len(b)

\* C12 as stated: whenever the declared length of r or of s runs past the
\* end of the buffer, parsing fails with a malformed-signature error.
C12_LengthPastEndRejected ==
    (LastIsBuffer /\ (RPastEnd(LastBytes) \/ SPastEnd(LastBytes))) =>
        /\ ~LastParsed.ok
        /\ ~last.ok
        /\ last.err \in MalformedErrors

\* The true value of the r or of the s of a buffer that passes the tag
\* checks needs more than CompLen bytes.
RTooLarge(b) == DerWalk(b).ok /\ Len(TrueBytes(DerWalk(b).r)) > CompLen
STooLarge(b) == DerWalk(b).ok /\ Len(TrueBytes(DerWalk(b).s)) > CompLen

\* C13 as stated: when r or s, its leading zero bytes stripped, needs more
\* than 32 bytes, parsing fails (with a value-too-large error, which is
\* none of the errors the search for the recovery id gives), and the
\* component goes no further: the address is not looked up.
C13_TooLargeRejected ==
    (LastIsBuffer /\ (RTooLarge(LastBytes) \/ STooLarge(LastBytes))) =>
        /\ ~LastParsed.ok
        /\ ~last.ok
        /\ last.err # RecoveryError
        /\ last.calls.pub = 0

\* The true value of a component fits in CompLen bytes.
Fits(raw) == Len(TrueBytes(raw)) <= CompLen
\* Exactly CompLen bytes with the value of raw.
Normalized(out, raw) == Len(out) = CompLen /\ BytesToInt(out) = BytesToInt(raw)

\* C14: for every r and s whose true value fits in 32 bytes, encoded
\* shorter, exactly, or with leading zero bytes, normalizing gives exactly
\* 32 bytes with the same value: the r of the parse, and the s before the
\* low-s step.
C14_NormalizeKeepsValue ==
    (LastIsBuffer /\ DerWalk(LastBytes).ok) =>
        /\ Fits(DerWalk(LastBytes).r) =>
              /\ LastParsed.ok
              /\ Normalized(LastParsed.r, DerWalk(LastBytes).r)
        /\ Fits(DerWalk(LastBytes).s) =>
              /\ Normalized(normalizeSignatureComponent(DerWalk(LastBytes).s),
                            DerWalk(LastBytes).s)
              /\ Normalized(PadLeft(StripLeadingZeros(DerWalk(LastBytes).s)),
                            DerWalk(LastBytes).s)

\* An r with two leading zero bytes in front of a value of CompLen bytes,
\* and a one-byte s.
C14_Witness ==
    /\ LastIsBuffer
    /\ DerWalk(LastBytes).ok
    /\ Len(DerWalk(LastBytes).r) = CompLen + 2
    /\ Len(TrueBytes(DerWalk(LastBytes).r)) = CompLen
    /\ Len(DerWalk(LastBytes).s) = 1
    /\ Len(LastParsed.r) = CompLen
    /\ BytesToInt(LastParsed.r) >= ByteBase

\* ======================================= the claims on the oracle's use
\* C15: when the oracle's Sign or GetPublicKey call throws, the operation
\* that sent it (personalSign, signTransaction, getAddress, getPublicKey of
\* a KmsWallet, a derivation of a KmsHdWallet) throws that same error, has
\* sent no other call after it (one Sign call and no GetPublicKey call
\* when Sign threw; one GetPublicKey call when that threw), and returns no
\* value.
C15_OracleErrorsSurface ==
    /\ last.resp.kind = "error" =>
          /\ ~last.ok
          /\ last.err = last.resp.err
          /\ last.calls = [sign |-> 1, pub |-> 0]
          /\ last.sig = NoSig
    /\ last.pubResp.kind = "error" =>
          /\ ~last.ok
          /\ last.err = last.pubResp.err
          /\ last.calls = [sign |-> (IF LastIsSign THEN 1 ELSE 0), pub |-> 1]
          /\ last.sig = NoSig
          /\ last.addr = None
          /\ last.pub = <<>>
          /\ cachedPublicKey = None
          /\ cachedAddress = None
    /\ hdLast.answer.kind = "error" =>
          /\ ~hdLast.ok
          /\ hdLast.err = hdLast.answer.err
          /\ hdLast.asked = 1
          /\ hdLast.values = <<>>
          /\ AtRest(hdLast.w) =>
                (cachedSeed[hdLast.w] = None /\ cachedMasterNode[hdLast.w] = None)

\* A sign operation whose Sign call was answered with a well-formed
\* signature and whose GetPublicKey call was denied.
C15_Witness ==
    /\ LastIsSign
    /\ last.resp.kind = "signature"
    /\ last.pubResp.kind = "error"
    /\ last.err = "OracleDenied"
    /\ signCalls = 1
    /\ pubKeyCalls = 1

\* A step that is one sign operation (personalSign or signTransaction).
SignStep ==
    /\ opCount' = opCount + 1
    /\ last'.op \in {"personalSign", "signTransaction"}
\* The step leaves the fields of the identity as they are.
IdentityUnchanged ==
    /\ cachedPublicKey' = cachedPublicKey
    /\ cachedAddress' = cachedAddress
    /\ impl' = impl
    /\ kmsKey' = kmsKey
\* The sign operation of the step got an answer that parses.
StepParsed == last'.resp.kind = "signature" /\ Parse(impl, last'.resp.bytes).ok

\* C16 as stated: a sign operation makes exactly one Sign call, no other
\* oracle call, and changes no state of the identity.
C16_SignHasNoOtherEffect ==
    [][SignStep =>
        /\ signCalls' = signCalls + 1
        /\ pubKeyCalls' = pubKeyCalls
        /\ IdentityUnchanged]_vars

\* C16, amended: a sign operation makes exactly one Sign call.  When the
\* answer parses and no address is cached it looks the address up: it makes
\* one GetPublicKey call unless the public key is cached, and with the
\* public key at hand it caches the key and the address; otherwise it
\* makes no other oracle call and changes no state of the identity.
C16_SignCallsOnceAndCachesAddress ==
    [][SignStep =>
        /\ signCalls' = signCalls + 1
        /\ last'.calls.sign = 1
        /\ impl' = impl
        /\ kmsKey' = kmsKey
        /\ IF StepParsed /\ ~IsSet(cachedAddress)
           THEN /\ pubKeyCalls' = pubKeyCalls + (IF IsSet(cachedPublicKey) THEN 0 ELSE 1)
                /\ last'.calls.pub = pubKeyCalls' - pubKeyCalls
                /\ IF IsSet(cachedPublicKey) \/ last'.pubResp.kind = "key"
                   THEN /\ cachedPublicKey' = Some(<<PointPrefix>> \o PointBytes(kmsKey))
                        /\ cachedAddress' = Some(ComputeAddress(kmsKey))
                   ELSE /\ cachedPublicKey' = cachedPublicKey
                        /\ cachedAddress' = cachedAddress
                        /\ ~last'.ok
           ELSE /\ pubKeyCalls' = pubKeyCalls
                /\ last'.calls.pub = 0
                /\ cachedPublicKey' = cachedPublicKey
                /\ cachedAddress' = cachedAddress]_vars

\* The first operation of a wallet was a sign operation that returned a
\* signature: it has called GetPublicKey and filled both caches.
C16_Witness ==
    /\ LastIsSign
    /\ opCount = 1
    /\ last.ok
    /\ last.calls = [sign |-> 1, pub |-> 1]
    /\ cachedPublicKey = Some(<<PointPrefix>> \o PointBytes(kmsKey))
    /\ cachedAddress = Some(ComputeAddress(kmsKey))

\* ==================================== KmsHdWallet: the claims on paths
\* The indices getAddress and getAddresses of the model reach.
ReachedIndices == 0 .. MaxIndex + MaxCount
\* What getAddress(i) returns on an identity whose master node is cached.
AddressAt(w, i) == ChildAddress(deriveChild(cachedMasterNode[w][1], hdBasePath[w], i))

\* C17: on one identity (one master node, one base path) the addresses of
\* two distinct indices differ: those getAddress has returned, and those
\* the cached master node gives (as many addresses as indices).
C17_DistinctIndicesDistinctAddresses ==
    \A w \in HdWallets :
        /\ \A i \in HdIndices, j \in HdIndices :
              i # j => hdHistory[w].returned[i] \cap hdHistory[w].returned[j] = {}
        /\ IsSet(cachedMasterNode[w]) =>
              Cardinality({AddressAt(w, i) : i \in ReachedIndices})
                  = Cardinality(ReachedIndices)

\* getAddress has returned for the indices 0 and 1 of the first identity.
C17_Witness ==
    /\ hdHistory[1].returned[0] # {}
    /\ hdHistory[1].returned[1] # {}
    /\ hdLast.op = "getAddress"
    /\ hdLast.ok

\* C18 as stated: the child an operation derives for index i on an
\* identity with the default base path, written with or without the
\* leading 'm/', is the node at m/44'/60'/0'/0/i.
C18_ChildAtStandardPath ==
    (hdLast.ok /\ hdLast.op \in DeriveOps) =>
        hdLast.values[1].node.path = DefaultBasePath \o <<IndexName(hdLast.index)>>

\* C19: getAddresses(count, startIndex) returns exactly count addresses,
\* the i-th (from 0) being what getAddress(startIndex + i) returns.
C19_BatchIsGetAddressInOrder ==
    (hdLast.op = "getAddresses" /\ hdLast.ok) =>
        /\ Len(hdLast.values) = hdLast.count
        /\ \A k \in 1 .. hdLast.count :
              /\ IsSet(cachedMasterNode[hdLast.w])
              /\ hdLast.values[k] = AddressAt(hdLast.w, hdLast.index + k - 1)

\* getAddresses(MaxCount, 1) has returned.
C19_Witness ==
    /\ hdLast.op = "getAddresses"
    /\ hdLast.ok
    /\ hdLast.count = MaxCount
    /\ hdLast.index = 1
    /\ Len(hdLast.values) = MaxCount
    /\ hdLast.values[1] # hdLast.values[MaxCount]

\* =========================================== KmsSigner: the claim on connect
\* A step in which connect was called.
ConnectStep == connectLast' # connectLast

\* C20: connect(provider) returns a new KmsSigner bound to the provider it
\* was given and to the KmsWallet of the original, with no cached address
\* and no nonce cache; the provider, the cached address and the nonce cache
\* of the original are what they were.
C20_ConnectGivesFreshSigner ==
    [][ConnectStep =>
        /\ connectLast'.returned =
              Some([provider |-> connectLast'.provider, kmsWallet |-> TheKmsWallet,
                    cachedAddress |-> None, nonceCache |-> None])
        /\ connectLast'.provider \in Providers
        /\ senderProvider' = senderProvider
        /\ senderCachedAddress' = senderCachedAddress
        /\ nonceCache' = nonceCache]_vars

\* connect to another provider has returned on a signer that has sent a
\* transaction: the original holds its address and a nonce, the new signer
\* neither.
C20_Witness ==
    /\ IsSet(connectLast.returned)
    /\ connectLast.provider = "provider2"
    /\ senderProvider = "provider1"
    /\ IsSet(senderCachedAddress)
    /\ IsSet(nonceCache)
    /\ connectLast.returned[1].nonceCache = None
    /\ connectLast.returned[1].cachedAddress = None


\* ------------------------------------------------ KmsHdWallet: the caches
\* C21 as stated: a derivation operation that fails (oracle error, missing
\* signature, mnemonic or master node not built) leaves cachedSeed and
\* cachedMasterNode as they were when it started.
C21_FailedDerivationKeepsCaches ==
    (hdLast.op # "none" /\ ~hdLast.ok /\ AtRest(hdLast.w)) =>
        Caches(hdLast.w) = hdLast.before

\* Steps of a caller: its call starts, its Sign call is answered with a
\* signature, its getMasterNode has built the master node.
HdStarts(c) == hdCall[c].pc = "idle" /\ hdCall'[c].pc # "idle"
SeedAnswered(c) == hdCall[c].pc = "awaitSign" /\ hdCall'[c].pc = "haveSeed"
MasterBuilt(c) == hdCall[c].pc = "haveSeed" /\ hdCall'[c].pc = "haveMaster"

\* C22: a call that starts while no seed is cached sends its own Sign call,
\* whatever calls are in flight; every signature answer overwrites
\* cachedSeed and every master node built overwrites cachedMasterNode, and
\* nothing else writes the two fields: what is left in each field is what
\* its last writer put there.
C22_OwnSignCallLastWriterWins ==
    [][/\ \A c \in HdCallers :
             LET w == hdCall'[c].w
                 v == hdCall[c].w
             IN  /\ (HdStarts(c) /\ cachedSeed[w] = None) =>
                        /\ hdCall'[c].pc = "awaitSign"
                        /\ hdCall'[c].asked = 1
                        /\ hdSignCalls'[w] = hdSignCalls[w] + 1
                 /\ SeedAnswered(c) => cachedSeed'[v] = Some(hdCall'[c].seed)
                 /\ MasterBuilt(c) =>
                        cachedMasterNode'[v] =
                            Some(fromPhrase(entropyFromSeed(hdCall[c].seed)))
       /\ \A w \in HdWallets :
             /\ cachedSeed'[w] # cachedSeed[w] =>
                    \E c \in HdCallers : SeedAnswered(c) /\ hdCall[c].w = w
             /\ cachedMasterNode'[w] # cachedMasterNode[w] =>
                    \E c \in HdCallers : MasterBuilt(c) /\ hdCall[c].w = w]_vars

\* Two calls that overlapped have each sent a Sign call and got a different
\* signature; both have returned and the caches are set.
C22_Witness ==
    /\ AtRest(1)
    /\ hdHistory[1].overlapped
    /\ hdHistory[1].done = 2
    /\ hdSignCalls[1] = 2
    /\ hdLast.ok
    /\ hdLast.asked = 1
    /\ IsSet(cachedMasterNode[1])
    /\ cachedSeed[1] # Some(hdLast.seed)

\* C22 as stated: after two overlapping calls that each sent a Sign call,
\* the caches hold what the call that returned last wrote.
C22_LastCompletedWroteCaches ==
    (/\ AtRest(1)
     /\ hdHistory[1].overlapped
     /\ hdHistory[1].done = 2
     /\ hdSignCalls[1] = 2
     /\ hdLast.asked = 1
     /\ IsSet(cachedSeed[1])) =>
        /\ cachedSeed[1] = Some(hdLast.seed)
        /\ IsSet(cachedMasterNode[1]) =>
               cachedMasterNode[1] = Some(fromPhrase(entropyFromSeed(hdLast.seed)))

\* What one sequential first access caches and returns with the seed the
\* deterministic oracle gives: the master node, and the address of an index.
SequentialMaster == fromPhrase(entropyFromSeed(fixedSeed))
SequentialAddress(w, i) == ChildAddress(deriveChild(SequentialMaster, hdBasePath[w], i))

\* C23: with a deterministic oracle and calls that overlap in any way,
\* every address returned for an index is the one a sequential first access
\* returns, the cache fields hold nothing but the seed and the master node
\* a sequential first access caches, and once the calls have returned
\* they hold what it leaves behind.
C23_ConcurrentFirstAccessBenign ==
    oracleDeterministic =>
        \A w \in HdWallets :
            /\ \A i \in HdIndices :
                   hdHistory[w].returned[i] \subseteq {SequentialAddress(w, i)}
            /\ cachedSeed[w] \in {None, Some(fixedSeed)}
            /\ cachedMasterNode[w] \in {None, Some(SequentialMaster)}
            /\ (AtRest(w) /\ IsSet(cachedSeed[w])) =>
                   (IsSet(cachedMasterNode[w]) <=> MnemonicOk(entropyFromSeed(fixedSeed)))

\* With a deterministic oracle, two calls that overlapped have each sent a
\* Sign call and returned the address of index 0.
C23_Witness ==
    /\ oracleDeterministic
    /\ AtRest(1)
    /\ hdHistory[1].overlapped
    /\ hdHistory[1].done = 2
    /\ ~hdHistory[1].failed
    /\ hdSignCalls[1] = 2
    /\ hdLast.op = "getAddress"
    /\ hdHistory[1].returned[0] # {}
    /\ \A i \in HdIndices \ {0} : hdHistory[1].returned[i] = {}
    /\ cachedMasterNode[1] = Some(SequentialMaster)

\* getAddress has returned two different addresses for one index of the
\* identity.
TwoAddresses(w) == \E i \in HdIndices : Cardinality(hdHistory[w].returned[i]) > 1

\* C24: two different addresses for one index of an identity come from a
\* race on the first access and from nothing else: the oracle is not
\* deterministic, two calls on the identity were in flight together and
\* each sent its own Sign call.  The witness is the state the claim says
\* is reachable.
C24_TwoAddressesOnlyByRace ==
    \A w \in HdWallets :
        TwoAddresses(w) =>
            /\ ~oracleDeterministic
            /\ hdHistory[w].overlapped
            /\ hdSignCalls[w] >= 2

\* Two callers whose getAddress calls for index 0 overlapped have both
\* returned, with different addresses.
C24_Witness ==
    /\ ~oracleDeterministic
    /\ AtRest(1)
    /\ hdHistory[1].overlapped
    /\ hdHistory[1].done = 2
    /\ ~hdHistory[1].failed
    /\ hdLast.op = "getAddress"
    /\ hdLast.index = 0
    /\ Cardinality(hdHistory[1].returned[0]) = 2

\* The master node getMasterNode builds from the seed that is cached.
MasterOfCachedSeed(w) == fromPhrase(entropyFromSeed(cachedSeed[w][1]))

\* C27: whenever both cache fields of an identity are set and the oracle
\* is deterministic or no two calls on the identity have been in flight
\* together, cachedMasterNode is the master node built from cachedSeed.
C27_MasterNodeFromCachedSeedUnlessRace ==
    \A w \in HdWallets :
        (/\ IsSet(cachedSeed[w])
         /\ IsSet(cachedMasterNode[w])
         /\ oracleDeterministic \/ ~hdHistory[w].overlapped) =>
            cachedMasterNode[w] = Some(MasterOfCachedSeed(w))

\* Both fields are set by calls that ran one after the other against an
\* oracle that is not deterministic, the seed being one that is used
\* unhashed.
C27_Witness ==
    /\ ~oracleDeterministic
    /\ ~hdHistory[1].overlapped
    /\ hdHistory[1].done = 2
    /\ AtRest(1)
    /\ IsSet(cachedMasterNode[1])
    /\ IsSet(cachedSeed[1])
    /\ cachedSeed[1][1].len = 20

\* C27 as stated: whenever both cache fields of an identity are set,
\* cachedMasterNode is the master node built from the cachedSeed of that
\* moment, under any interleaving of calls and any oracle.
C27_MasterNodeFromCachedSeed ==
    \A w \in HdWallets :
        (IsSet(cachedSeed[w]) /\ IsSet(cachedMasterNode[w])) =>
            cachedMasterNode[w] = Some(MasterOfCachedSeed(w))

\* ------------------------- KmsSigner and KmsWalletProvider: the nonces
\* C25 as stated: the transactions one object has broadcast for requests
\* without a nonce of their own carry different nonces, also when its
\* sendTransaction calls overlap.
C25_BroadcastNoncesDistinct ==
    ~sendHistory.explicitUsed =>
        Cardinality({sendHistory.sent[k] : k \in DOMAIN sendHistory.sent})
            = Len(sendHistory.sent)

\* Steps of a caller: its call ends, by returning or by throwing.
SendEnds(c) == sendCall[c].pc # "idle" /\ sendCall'[c].pc = "idle"
\* The awaits at which a call has chosen its nonce.
NonceChosen == {"sign", "broadcast", "initCache"}

\* A sendTransaction without a nonce of its own has failed in signing or in
\* the broadcast, and the call in flight is the sendTransaction without a
\* nonce of its own that follows it.
RetryAfterFailure(c) ==
    /\ sendLast.op = "sendTransaction"
    /\ ~sendLast.ok
    /\ sendLast.at \in {"sign", "broadcast"}
    /\ sendLast.explicit = None
    /\ sendCall[c].op = "sendTransaction"
    /\ sendCall[c].explicit = None
    /\ sendCall[c].pc = "sign"

\* C26: the nonce cache changes only in the step in which a broadcast is
\* accepted or in the initialization that follows it; a call that throws
\* leaves it as it is; and the sendTransaction without a nonce of its own
\* that follows a failed one signs the nonce the failed one had chosen.
C26_CacheAdvancesAfterBroadcastOnly ==
    [][/\ nonceCache' # nonceCache =>
              \E c \in SendCallers :
                  \/ /\ sendCall[c].pc = "broadcast"
                     /\ Len(sendHistory'.sent) = Len(sendHistory.sent) + 1
                  \/ sendCall[c].pc = "initCache"
       /\ \A c \in SendCallers :
              (SendEnds(c) /\ ~sendLast'.ok) => nonceCache' = nonceCache
       /\ \A c \in SendCallers :
              RetryAfterFailure(c)' => sendCall'[c].nonce = sendLast'.nonce]_vars

\* A sendTransaction has failed in the broadcast with the nonce cache set,
\* and the next one has chosen the same nonce.
C26_Witness ==
    /\ IsSet(nonceCache)
    /\ sendLast.at = "broadcast"
    /\ sendLast.nonce = nonceCache[1]
    /\ RetryAfterFailure(1)
    /\ sendCall[1].nonce = sendLast.nonce

\* A step of a signTransaction call of the caller.
SignOnlyStep(c) ==
    /\ sendCall'[c] # sendCall[c]
    /\ sendCall[c].op = "signTransaction" \/ sendCall'[c].op = "signTransaction"
\* signTransaction without a nonce of its own has signed or tried to, and
\* the call that follows it is another one.
SecondSignOnly(c) ==
    /\ sendLast.op = "signTransaction"
    /\ sendLast.at = "sign"
    /\ sendLast.explicit = None
    /\ sendCall[c].op = "signTransaction"
    /\ sendCall[c].explicit = None
    /\ sendCall[c].pc = "sign"

\* C28: no step of KmsSigner.signTransaction changes the nonce cache, and
\* a signTransaction without a nonce of its own that follows another one
\* signs the same nonce.
C28_SignTransactionKeepsNonceCache ==
    [][\A c \in SendCallers :
          /\ SignOnlyStep(c) => nonceCache' = nonceCache
          /\ SecondSignOnly(c)' => sendCall'[c].nonce = sendLast'.nonce]_vars

\* After a sendTransaction has set the nonce cache, signTransaction has
\* returned and the next signTransaction has chosen its nonce.
C28_Witness ==
    /\ IsSet(nonceCache)
    /\ sendLast.ok
    /\ SecondSignOnly(1)
    /\ sendCall[1].nonce = nonceCache[1]

\* C29: a call whose request names its nonce never asks the provider for
\* the transaction count to choose one, holds that nonce from the moment
\* the nonce is chosen, and, when it has signed, has signed that nonce.
C29_ExplicitNonceSigned ==
    /\ \A c \in SendCallers :
          IsSet(sendCall[c].explicit) =>
              /\ sendCall[c].pc # "awaitCount"
              /\ sendCall[c].pc \in NonceChosen =>
                     sendCall[c].nonce = sendCall[c].explicit[1]
              /\ sendCall[c].pc \in {"broadcast", "initCache"} =>
                     sendHistory.signed[Len(sendHistory.signed)] = sendCall[c].explicit[1]
    /\ (IsSet(sendLast.explicit) /\ sendLast.at \in NonceChosen) =>
          sendLast.nonce = sendLast.explicit[1]
    /\ (IsSet(sendLast.explicit) /\ sendLast.ok /\ SendInFlight = {}) =>
          sendHistory.signed[Len(sendHistory.signed)] = sendLast.explicit[1]

\* A call with its own nonce has returned on an object whose nonce cache
\* held another nonce.
C29_Witness ==
    /\ sendLast.ok
    /\ IsSet(sendLast.explicit)
    /\ IsSet(sendLast.cacheBefore)
    /\ sendLast.cacheBefore # sendLast.explicit
    /\ sendLast.nonce = sendLast.explicit[1]
    /\ SendInFlight = {}

\* ------------------------------------------ KmsWallet: the search again
\* The last sign operation got as far as findRecoveryParam: the oracle
\* answered, the answer was parsed and the address is known.
SearchRan ==
    /\ LastIsSign
    /\ last.resp.kind = "signature"
    /\ LastParsed.ok
    /\ IsSet(cachedAddress)
\* The first turn of that search threw.
FirstTurnThrew == CandidateThrows(last.digest, LastParsed.r, LastParsed.s, 27)

\* C30: when the turn for v = 27 throws, the search goes on with v = 28: it
\* returns 28 when that candidate recovers the address, and fails with the
\* recovery-parameter error when not; no other error leaves the search.
C30_SearchSurvivesFirstException ==
    SearchRan =>
        /\ ~last.ok => last.err = RecoveryError
        /\ FirstTurnThrew =>
               IF RecoveryMatches(last.digest, LastParsed.r, LastParsed.s, 28,
                                  cachedAddress[1])
               THEN last.ok /\ last.sig.v = 28
               ELSE ~last.ok /\ last.err = RecoveryError

\* The search ran on an r and an s that Signature.from accepts and
\* recoverAddress throws on, and ended with the recovery-parameter error.
C30_Witness ==
    /\ SearchRan
    /\ SignatureFromOk(LastParsed.r, LastParsed.s, 27)
    /\ FirstTurnThrew
    /\ CandidateThrows(last.digest, LastParsed.r, LastParsed.s, 28)
    /\ ~last.ok
    /\ last.err = RecoveryError

====
